---- MODULE Spec2Model ----
(***************************************************************************)
(* Webhook ingestion of quantaira-render.                                  *)
(*                                                                         *)
(* The repository holds two separate FastAPI applications:                 *)
(*   "server" : backend/server.py, POST /webhook, SQL tables vitals and    *)
(*              gateway_map;                                               *)
(*   "routes" : backend/routes/*.py, POST /webhooks/tenovi, persisting     *)
(*              through the module `store`, which is not among the source  *)
(*              files and is modelled from the specification.              *)
(* A run of the model is one deployment of one of them.                    *)
(*                                                                         *)
(* Strings are sequences of one-character strings, so that strip(),        *)
(* lower(), upper() and isalnum() are computed and not assumed.  A JSON    *)
(* value is a record [t, s, n]: absent/null, a string or a number.         *)
(***************************************************************************)
EXTENDS Integers, Sequences, FiniteSets

VARIABLES
    deployment,      \* "server" or "routes"
    key,             \* the configured webhook secret, as read from the environment
    body,            \* the request body the vendor delivers (and re-delivers)
    reqs,            \* the ingestion requests, in order of arrival
    vitals,          \* the measurement store: rows in insertion order
    gateway_map,     \* the gateway directory: rows [gateway_raw, gateway_norm, patient_id]
    patient_rows,    \* store's patient rows (routes deployment)
    webhook_bodies,  \* db.py's table of seen body hashes
    now,             \* the wall clock, in whole minutes
    dialect,         \* the database behind server.py: "sqlite" or "postgres"
    resp,            \* the response to the last GET /vitals
    binds,           \* the POST /map-gateway requests in flight
    call,            \* a helper function under test: its argument and result
    tz,              \* the host's local time zone: minutes ahead of UTC
    tables,          \* server.py's tables meals, notes and limits
    session_state,   \* the dashboard's st.session_state, one per browser session
    user_state       \* the dashboard's files under .user_state, per patient

vars == <<deployment, key, body, reqs, vitals, gateway_map, patient_rows,
          webhook_bodies, now, dialect, tz, tables, session_state,
          user_state, resp, binds, call>>

\* what ingestion leaves alone
aside == <<now, dialect, resp, binds, call, tz, tables, session_state,
          user_state>>

-----------------------------------------------------------------------------
(* Bounds of the model *)

MaxEvents == 3      \* longest array payload
MaxReq == 2         \* deliveries of the body
MaxRetryEvents == 1 \* longest array payload that is re-delivered

-----------------------------------------------------------------------------
(* JSON values and Python strings *)

None == [t |-> "none", s |-> <<>>, n |-> 0]
Str(s) == [t |-> "str", s |-> s, n |-> 0]
Num(n) == [t |-> "num", s |-> <<>>, n |-> n]

\* Python truthiness of a value, as `x or y` and `if x:` use it
Truthy(v) == \/ (v.t = "str" /\ v.s # <<>>)
             \/ (v.t = "num" /\ v.n # 0)

\* a or b
Or(a, b) == IF Truthy(a) THEN a ELSE b

IsSpace(c) == c = " "

LowerCh(c) == CASE c = "A" -> "a" [] c = "B" -> "b" [] c = "G" -> "g"
                [] c = "K" -> "k" [] c = "L" -> "l" [] c = "O" -> "o"
                [] c = "P" -> "p" [] c = "U" -> "u" [] c = "S" -> "s"
                [] c = "E" -> "e" [] c = "X" -> "x" [] OTHER -> c

\* Variant: no letter has an upper-case form.
UpperCh_Same(c) == c

\* "\u00aa" is a lower-case letter without an upper-case form
UpperCh(c) == CASE c = "a" -> "A" [] c = "b" -> "B" [] c = "g" -> "G"
                [] c = "k" -> "K" [] c = "l" -> "L" [] c = "o" -> "O"
                [] c = "p" -> "P" [] c = "u" -> "U" [] c = "s" -> "S"
                [] c = "e" -> "E" [] c = "x" -> "X" [] OTHER -> c

IsAlnum(c) == c \in {"a", "b", "g", "k", "l", "o", "p", "u", "s", "e", "x",
                     "A", "B", "G", "K", "L", "O", "P", "U", "S", "E", "X", "ª",
                     "0", "1", "2", "5", "7", "8"}

\* str.lower(), str.upper()
Lower(s) == [i \in 1..Len(s) |-> LowerCh(s[i])]
Upper(s) == [i \in 1..Len(s) |-> UpperCh(s[i])]

RECURSIVE LStrip(_)
LStrip(s) == IF s # <<>> /\ IsSpace(Head(s)) THEN LStrip(Tail(s)) ELSE s

RECURSIVE RStrip(_)
RStrip(s) == IF s # <<>> /\ IsSpace(s[Len(s)])
             THEN RStrip(SubSeq(s, 1, Len(s) - 1)) ELSE s

\* str.strip()
Strip(s) == RStrip(LStrip(s))

\* "".join(ch for ch in s if ch.isalnum())
RECURSIVE KeepAlnum(_)
KeepAlnum(s) == IF s = <<>> THEN <<>>
                ELSE IF IsAlnum(Head(s)) THEN <<Head(s)>> \o KeepAlnum(Tail(s))
                ELSE KeepAlnum(Tail(s))

\* str(v) of a string or of a one-digit number
DigitCh(n) == CASE n = 0 -> "0" [] n = 1 -> "1" [] n = 2 -> "2"
                [] n = 5 -> "5" [] n = 7 -> "7" [] OTHER -> "8"
ToStr(v) == IF v.t = "str" THEN v.s ELSE <<DigitCh(v.n)>>

\* norm_gateway: None for a falsy argument or one without alphanumerics
norm_gateway(v) ==
    IF ~Truthy(v) THEN None
    ELSE LET keep == KeepAlnum(Upper(Strip(ToStr(v))))
         IN  IF keep = <<>> THEN None ELSE Str(keep)

-----------------------------------------------------------------------------
(* Instants and their text *)

\* An instant is a whole minute plus a sub-second part in microseconds; every
\* instant of the model lies less than a second after a whole minute.
Instant(m, us) == [minute |-> m, us |-> us]

\* timedelta(hours=h), in minutes
Hours(h) == 60 * h

\* datetime.isoformat(): "...:SS" or "...:SS.ffffff", then the offset; the
\* fraction is printed only when the microseconds are not zero.  minute
\* stands for the fixed-width text up to the seconds.
isoformat(d) == [minute |-> d.minute, frac |-> d.us, suffix |-> "+00:00"]

\* .replace("+00:00", "Z")
ReplaceZ(txt) == [txt EXCEPT !.suffix = "Z"]

\* now_iso_utc(), the clock reading d
now_iso_utc(d) == ReplaceZ(isoformat(d))

\* a JSON string that is an ISO timestamp on a whole second ("...:00:00Z")
IsoStr(m) == [t |-> "iso", s |-> <<>>, n |-> m]

\* ... one that carries the offset +01:00 ("...:00:00+01:00"), and one
\* without offset ("...:00:00"); n is the wall-clock minute that is written
IsoPlus1(m) == [t |-> "plus1", s |-> <<>>, n |-> m]
IsoNaive(m) == [t |-> "naive", s |-> <<>>, n |-> m]

\* datetime.fromisoformat(str(ts).replace("Z", "+00:00")) succeeds
Parses(ts) == ts.t \in {"iso", "plus1", "naive"}

\* ... and gives a datetime: its wall-clock minute, and its tzinfo as minutes
\* ahead of UTC when it has one
fromisoformat(ts) ==
    [wall |-> ts.n, aware |-> ts.t # "naive",
     offset |-> IF ts.t = "plus1" THEN 60 ELSE 0]

\* to_iso_utc(ts) for an event's timestamp field: the parsed instant printed
\* again (a datetime without tzinfo is given UTC), or the clock when the field
\* is absent or does not parse
to_iso_utc(ts, d) ==
    IF Parses(ts)
    THEN ReplaceZ(isoformat(Instant(fromisoformat(ts).wall - fromisoformat(ts).offset, 0)))
    ELSE now_iso_utc(d)

\* the order of the characters that can follow the seconds: "+" < "." < "Z"
TailRank(txt) == IF txt.frac # 0 THEN 2 ELSE IF txt.suffix = "Z" THEN 3 ELSE 1

\* a >= b as strings (a TEXT column compares character by character)
TextGE(a, b) ==
    \/ a.minute > b.minute
    \/ /\ a.minute = b.minute
       /\ \/ TailRank(a) > TailRank(b)
          \/ TailRank(a) = TailRank(b) /\ a.frac >= b.frac

\* a >= b as instants (a TIMESTAMPTZ column compares the parsed values)
InstantGE(a, b) ==
    a.minute > b.minute \/ (a.minute = b.minute /\ a.frac >= b.frac)

-----------------------------------------------------------------------------
(* The inputs: headers, events, bodies *)

\* A payload element: a JSON object with the keys the handlers read (a key
\* that is absent is None), or a JSON value that is not an object.
EvAt(pid, gw, sh, bp, ts) ==
    [obj |-> TRUE, patient_id |-> pid, gateway_id |-> gw,
     metric |-> sh.metric, value |-> sh.value,
     systolic |-> sh.systolic, diastolic |-> sh.diastolic,
     bp |-> bp, timestamp |-> ts]

\* ... without "bp" and "timestamp" keys
Ev(pid, gw, sh) == EvAt(pid, gw, sh, None, None)

NonObj ==
    [obj |-> FALSE, patient_id |-> None, gateway_id |-> None,
     metric |-> None, value |-> None, systolic |-> None, diastolic |-> None,
     bp |-> None, timestamp |-> None]

\* {"metric": "Pulse ", "value": 70}
ShapeMV == [metric |-> Str(<<"P", "u", "l", "s", "e", " ">>), value |-> Num(70),
            systolic |-> None, diastolic |-> None]
\* {"systolic": 120, "diastolic": 80}
ShapeBP == [metric |-> None, value |-> None,
            systolic |-> Num(120), diastolic |-> Num(80)]
\* {"systolic": "bad", "diastolic": 80}
ShapeBadBP == [metric |-> None, value |-> None,
               systolic |-> Str(<<"b", "a", "d">>), diastolic |-> Num(80)]
\* {"foo": 1}: no key any handler recognizes
ShapeMiss == [metric |-> None, value |-> None, systolic |-> None, diastolic |-> None]

Shapes == {ShapeMV, ShapeBP, ShapeBadBP, ShapeMiss}

\* patient identifiers an event may carry: none, " Al", a blank string, the number 5
PatientVals == {None, Str(<<" ", "A", "l">>), Str(<<" ">>), Num(5)}
\* gateway identifiers an event may carry: none, "g-1"
GatewayVals == {None, Str(<<"g", "-", "1">>)}

\* The elements of one payload share the identity fields and differ in shape.
Elems(pid, gw) == {Ev(pid, gw, sh) : sh \in Shapes} \cup {NonObj}

SeqsUpTo(S, n) == UNION {[1..k -> S] : k \in 0..n}

NoBody == [kind |-> "none", top |-> "none", events |-> <<>>]
EmptyBody == [kind |-> "empty", top |-> "none", events |-> <<>>]
MalformedBody == [kind |-> "malformed", top |-> "none", events |-> <<>>]
JsonBody(top, evs) == [kind |-> "json", top |-> top, events |-> evs]

Bodies ==
    {EmptyBody, MalformedBody, JsonBody("scalar", <<NonObj>>)}
    \cup {JsonBody("object", <<e>>) :
            e \in UNION {Elems(p, g) \ {NonObj} : p \in PatientVals, g \in GatewayVals}}
    \cup UNION {{JsonBody("array", evs) : evs \in SeqsUpTo(Elems(p, g), MaxEvents)} :
                  p \in PatientVals, g \in GatewayVals}

\* Request headers; a header that is not sent is the empty string.
Hdr(xwk, xak, ak, au) ==
    [x_webhook_key |-> xwk, x_auth_key |-> xak, auth_key |-> ak, authorization |-> au]

Headers ==
    { Hdr(<<>>, <<>>, <<>>, <<>>),              \* no secret
      Hdr(<<"k", " ">>, <<>>, <<>>, <<>>),      \* X-Webhook-Key: "k "
      Hdr(<<"x">>, <<>>, <<>>, <<>>),           \* X-Webhook-Key: "x"
      Hdr(<<>>, <<"k">>, <<>>, <<>>) }          \* X-Auth-Key: "k"

\* values of the secret in the environment: unset, " k"
Keys == {<<>>, <<" ", "k">>}

\* the bind operation's inputs
BindGateways == {<<"G", "1", " ">>}
BindPatients == {<<"B", "o", "b">>}

-----------------------------------------------------------------------------
(* Authentication *)

\* a or b, on header strings
OrS(a, b) == IF a # <<>> THEN a ELSE b

\* server.py: TENOVI_WEBHOOK_KEY, stripped when the module loads
TENOVI_WEBHOOK_KEY == Strip(key)

\* server.py: _get_webhook_key
get_webhook_key(h) == Strip(OrS(h.x_webhook_key, OrS(h.x_auth_key, h.auth_key)))

\* Variant: the key is compared only when the request sends one.
ServerAuthOK_SkipsAbsent(h) ==
    ~(TENOVI_WEBHOOK_KEY # <<>> /\ get_webhook_key(h) # <<>>
        /\ get_webhook_key(h) # TENOVI_WEBHOOK_KEY)

\* server.py webhook: the request passes unless a key is configured and differs
ServerAuthOK(h) ==
    ~(TENOVI_WEBHOOK_KEY # <<>> /\ get_webhook_key(h) # TENOVI_WEBHOOK_KEY)

\* routes/webhooks_tenovi.py: _check_secret returns (TRUE) or raises 401 (FALSE)
check_secret(h) ==
    LET val == OrS(h.x_webhook_key, h.authorization)
    IN  IF key = <<>> THEN TRUE
        ELSE Strip(val) = Strip(key)

AuthOK(h) == IF deployment = "server" THEN ServerAuthOK(h) ELSE check_secret(h)

-----------------------------------------------------------------------------
(* The gateway directory *)

GwRow(raw, norm, pid) == [gateway_raw |-> raw, gateway_norm |-> norm, patient_id |-> pid]

\* SELECT patient_id FROM gateway_map WHERE gateway_norm = n  (fetchone)
\* The result is a string value, or None when no row matches.
SelectPatient(gmap, n) ==
    IF \E g \in gmap : g.gateway_norm = n
    THEN Str((CHOOSE g \in gmap : g.gateway_norm = n).patient_id)
    ELSE None

\* map_gateway's SELECT, then UPDATE of the existing row or INSERT of a new one
UpsertRow(gmap, raw, n, pid) ==
    {g \in gmap : g.gateway_norm # n} \cup {GwRow(raw, n, pid)}

\* store (not among the sources): the placeholder patient of ensure_unassigned_patient
UNASSIGNED == <<"u", "n", "a", "s", "s", "i", "g", "n", "e", "d">>

\* store.upsert_gateway_binding: one binding per normalized gateway, last writer wins
upsert_gateway_binding(gmap, gw, pid) ==
    UpsertRow(gmap, gw, norm_gateway(Str(gw)).s, pid)

\* store.find_binding_by_gateway: the bound patient, or None
find_binding_by_gateway(gmap, gw) == SelectPatient(gmap, norm_gateway(Str(gw)).s)

-----------------------------------------------------------------------------
(* One payload element on POST /webhook (server.py) *)

UNKNOWN == <<"u", "n", "k", "n", "o", "w", "n">>

Row(pid, metric, value, unit, gwn, raw, ts) ==
    [patient_id |-> pid, metric |-> metric, value |-> value, unit |-> unit,
     gateway_norm |-> gwn, raw |-> raw, timestamp_utc |-> ts]

\* (r.get("patient_id") or r.get("patient") or "").strip().lower()
\* is evaluated on a dict whose value is a string (or absent); on anything
\* else .get or .strip raises AttributeError.
ServerRaises(r) ==
    \/ ~r.obj
    \/ (r.patient_id.t = "num" /\ Truthy(r.patient_id))
    \/ (r.metric.t = "num" /\ Truthy(r.metric))

\* Variant: .lower() is left out.
ServerPatientField_NoLower(r) == Strip(Or(r.patient_id, Str(<<>>)).s)

ServerPatientField(r) == Lower(Strip(Or(r.patient_id, Str(<<>>)).s))

\* Variant: the gateway directory is consulted before the patient field.
ServerResolve_GatewayFirst(r, gmap) ==
    LET patient == ServerPatientField(r)
        gw_norm == norm_gateway(r.gateway_id)
        mapped  == IF Truthy(gw_norm) THEN SelectPatient(gmap, gw_norm.s) ELSE None
        p2 == IF Truthy(gw_norm) /\ Truthy(mapped)
              THEN Lower(Strip(mapped.s)) ELSE patient
    IN  IF p2 = <<>> THEN UNKNOWN ELSE p2

\* the patient a row is stored under (lines 334, 344-355)
ServerResolve(r, gmap) ==
    LET patient == ServerPatientField(r)
        gw_norm == norm_gateway(r.gateway_id)
        mapped  == IF Truthy(gw_norm) THEN SelectPatient(gmap, gw_norm.s) ELSE None
        p2 == IF patient = <<>> /\ Truthy(gw_norm) /\ Truthy(mapped)
              THEN Lower(Strip(mapped.s)) ELSE patient
    IN  IF p2 = <<>> THEN UNKNOWN ELSE p2

\* the row appended to to_insert (lines 357-366)
ServerRow(r, gmap, d) ==
    Row(ServerResolve(r, gmap),
        Lower(Strip(Or(r.metric, Str(<<>>)).s)),
        r.value, None, norm_gateway(r.gateway_id), r,
        to_iso_utc(r.timestamp, d))

-----------------------------------------------------------------------------
(* One payload element on POST /webhooks/tenovi (routes/webhooks_tenovi.py) *)

IsDigit(c) == c \in {"0", "1", "2", "5", "7", "8"}

\* float(v) succeeds on a number and on a string of digits
FloatOK(v) == \/ v.t = "num"
              \/ (v.t = "str" /\ Strip(v.s) # <<>>
                    /\ \A i \in 1..Len(Strip(v.s)) : IsDigit(Strip(v.s)[i]))

Present(v) == v.t # "none"

\* _normalize_one raises: float() of a non-numeric systolic or diastolic
NormalizeRaises(r) ==
    Present(r.systolic) /\ Present(r.diastolic)
        /\ ~(FloatOK(r.systolic) /\ FloatOK(r.diastolic))

MMHG == <<"m", "m", "H", "g">>
SYSTOLIC_BP == <<"s", "y", "s", "t", "o", "l", "i", "c", "_", "b", "p">>
DIASTOLIC_BP == <<"d", "i", "a", "s", "t", "o", "l", "i", "c", "_", "b", "p">>

\* datetime.astimezone(timezone.utc): a datetime without tzinfo is taken to
\* be in the host's local time
astimezone_utc(p) ==
    Instant(p.wall - (IF p.aware THEN p.offset ELSE tz), 0)

\* _normalize_one: the rows of one element, given the resolved patient
normalize_one(r, pid, d) ==
    LET dt == IF Parses(r.timestamp) THEN astimezone_utc(fromisoformat(r.timestamp))
              ELSE d
    IN  IF Present(r.systolic) /\ Present(r.diastolic)
        THEN << Row(pid, SYSTOLIC_BP, r.systolic, Str(MMHG), None, r, isoformat(dt)),
                Row(pid, DIASTOLIC_BP, r.diastolic, Str(MMHG), None, r, isoformat(dt)) >>
        ELSE IF Present(r.metric) /\ Present(r.value)
        THEN << Row(pid, Lower(Strip(ToStr(r.metric))), r.value, None, None, r,
                    isoformat(dt)) >>
        ELSE << >>

\* Variant: an event without patient and gateway gets no patient at all.
TenoviResolve_NoSentinel(r, gmap) ==
    IF Truthy(r.patient_id) THEN ToStr(r.patient_id)
    ELSE IF Truthy(r.gateway_id)
    THEN LET bound == find_binding_by_gateway(gmap, ToStr(r.gateway_id))
         IN  IF Truthy(bound) THEN bound.s ELSE UNASSIGNED
    ELSE <<>>

\* webhook_tenovi lines 90-107: the resolved patient
TenoviResolve(r, gmap) ==
    IF Truthy(r.patient_id) THEN ToStr(r.patient_id)
    ELSE IF Truthy(r.gateway_id)
    THEN LET bound == find_binding_by_gateway(gmap, ToStr(r.gateway_id))
         IN  IF Truthy(bound) THEN bound.s ELSE UNASSIGNED
    ELSE UNASSIGNED

\* Variant: the placeholder is used but no binding is recorded.
TenoviBindings_Forgets(r, gmap) == gmap

\* Variant: a gateway without a patient on the event is bound to the
\* placeholder whether or not it is bound already.
TenoviBindings_Rebinds(r, gmap) ==
    IF ~Truthy(r.patient_id) /\ Truthy(r.gateway_id)
    THEN upsert_gateway_binding(gmap, ToStr(r.gateway_id), UNASSIGNED)
    ELSE gmap

\* ... the gateway directory after resolving
TenoviBindings(r, gmap) ==
    IF ~Truthy(r.patient_id) /\ Truthy(r.gateway_id)
         /\ ~Truthy(find_binding_by_gateway(gmap, ToStr(r.gateway_id)))
    THEN upsert_gateway_binding(gmap, ToStr(r.gateway_id), UNASSIGNED)
    ELSE gmap

\* ... and the patient rows (find_patient / upsert_patient_row /
\* ensure_unassigned_patient)
TenoviPatients(r, gmap, prows) ==
    IF Truthy(r.patient_id) THEN prows \cup {ToStr(r.patient_id)}
    ELSE IF Truthy(r.gateway_id)
              /\ Truthy(find_binding_by_gateway(gmap, ToStr(r.gateway_id)))
    THEN prows
    ELSE prows \cup {UNASSIGNED}

-----------------------------------------------------------------------------
(* The requests *)

\* A request after its authentication step.  status is the HTTP status of the
\* response (0 while the request runs); inserted and duplicate are the fields
\* of the response body; failed_at names the step that raised.  after is
\* bookkeeping no handler reads: the deliveries already answered on arrival.
Admitted(h) ==
    [hdr |-> h, pc |-> "admitted", inserted |-> 0, status |-> 0,
     failed_at |-> "none", duplicate |-> FALSE,
     after |-> {r \in 1..Len(reqs) : reqs[r].pc = "done"}]

\* raise HTTPException(status_code=401)
Rejected(h) ==
    [hdr |-> h, pc |-> "done", inserted |-> 0, status |-> 401,
     failed_at |-> "auth", duplicate |-> FALSE,
     after |-> {r \in 1..Len(reqs) : reqs[r].pc = "done"}]

NewRequest(h) == IF AuthOK(h) THEN Admitted(h) ELSE Rejected(h)

\* an exception that reaches the framework: 500
Failed(q, step) == [q EXCEPT !.pc = "done", !.status = 500, !.failed_at = step]

\* return {"ok": True, "inserted": n}: the response has no "duplicate" key
Succeeded(q, n) == [q EXCEPT !.pc = "done", !.status = 200, !.inserted = n]

\* await req.json(): raises on a zero-length body and on a body that is not JSON
JsonRaises(b) == b.kind \in {"empty", "malformed"}

\* Variant: the body is marked seen as soon as it is read, parsed or not.
SeenAfterParse_Marks(seen, b) == seen \cup {b}

\* the seen set after a request has parsed (or failed to parse) body b:
\* neither handler reads or writes webhook_bodies
SeenAfterParse(seen, b) == seen

\* Variant: the rows are inserted last event first.
ServerRows_Reversed(evs, gmap, d) ==
    IF \E i \in 1..Len(evs) : ServerRaises(evs[i]) THEN <<>>
    ELSE [i \in 1..Len(evs) |-> ServerRow(evs[Len(evs) + 1 - i], gmap, d)]

\* server.py webhook, lines 331-372: the rows of the request, all inserted in
\* one transaction, or none when an element raises
ServerRows(evs, gmap, d) ==
    IF \E i \in 1..Len(evs) : ServerRaises(evs[i]) THEN <<>>
    ELSE [i \in 1..Len(evs) |-> ServerRow(evs[i], gmap, d)]

\* webhook_tenovi, lines 89-113: one turn of `for r in rows`, on the store
\* st = [vitals, gateway_map, patient_rows, inserted, raised, clock]
TenoviTurn(st, e) ==
    IF ~e.obj
    THEN [st EXCEPT !.raised = TRUE]            \* r.get raises
    ELSE LET pid == TenoviResolve(e, st.gateway_map)
             rows == normalize_one(e, pid, st.clock)
             st1 == [st EXCEPT
                       !.gateway_map = TenoviBindings(e, st.gateway_map),
                       !.patient_rows = TenoviPatients(e, st.gateway_map, st.patient_rows)]
         IN  IF NormalizeRaises(e)
             THEN [st1 EXCEPT !.raised = TRUE]  \* float() raises
             ELSE [st1 EXCEPT !.vitals = @ \o rows,
                              !.inserted = @ + Len(rows)]

RECURSIVE TenoviLoop(_, _)
TenoviLoop(evs, st) ==
    IF evs = <<>> \/ st.raised THEN st
    ELSE TenoviLoop(Tail(evs), TenoviTurn(st, Head(evs)))

-----------------------------------------------------------------------------
(* The state machine *)

\* no GET /vitals answered yet; no helper under test
NoResp == [status |-> 0, items |-> <<>>]
NoCall == [fn |-> "none"]
NoTables == [meals |-> <<>>, notes |-> <<>>, limits |-> <<>>]

\* the dashboard's browser sessions and the patients they look at
Sessions == {"s1", "s2"}
PagePids == {<<"t", "o", "d", "d">>, <<"a", "l">>}

\* a session before its first script run (st.session_state has no key; the
\* page's pid is the query parameter of its URL) and an empty .user_state
NoSession == [pid |-> None, persist_loaded_for |-> None, meals |-> <<>>,
              notes |-> <<>>, usda_hits |-> FALSE]
NoSessions == [s \in Sessions |-> NoSession]
NoFiles == [p \in PagePids |-> [meals |-> <<>>, notes |-> <<>>]]

\* the service at rest: empty tables, the default database (server.py line 15),
\* the host's clock set to UTC
AtRest ==
    /\ body = NoBody
    /\ reqs = <<>>
    /\ vitals = <<>>
    /\ gateway_map = {}
    /\ patient_rows = {}
    /\ webhook_bodies = {}
    /\ now = 0
    /\ resp = NoResp
    /\ binds = <<>>
    /\ tz = 0
    /\ tables = NoTables
    /\ session_state = NoSessions
    /\ user_state = NoFiles

Init ==
    /\ deployment \in {"server", "routes"}
    /\ key \in Keys
    /\ dialect = "sqlite"
    /\ AtRest
    /\ call = NoCall

\* A delivery arrives and is authenticated (server.py lines 324-326,
\* webhook_tenovi line 84).
Arrive(h) ==
    /\ reqs = <<>>
    /\ reqs' = <<NewRequest(h)>>
    /\ UNCHANGED <<deployment, key, body, vitals, gateway_map, patient_rows,
                   webhook_bodies>>
    /\ UNCHANGED aside

\* The vendor delivers the same bytes again.
Redeliver(h) ==
    /\ reqs # <<>>
    /\ Len(reqs) < MaxReq
    /\ reqs' = Append(reqs, NewRequest(h))
    /\ UNCHANGED <<deployment, key, body, vitals, gateway_map, patient_rows,
                   webhook_bodies>>
    /\ UNCHANGED aside

\* server.py webhook from `await req.json()` to the response.  The handler is
\* a coroutine and nothing after the await yields: it runs as one step.  The
\* body b is the delivery's: the first request to read it fixes it.
\* us is the sub-second
\* part of the clock when the rows are stamped.
ServerHandle(r, b, us) ==
    /\ deployment = "server"
    /\ reqs[r].pc = "admitted"
    /\ body' = b
    /\ webhook_bodies' = SeenAfterParse(webhook_bodies, b)
    /\ IF JsonRaises(b)
       THEN /\ reqs' = [reqs EXCEPT ![r] = Failed(@, "parse")]
            /\ UNCHANGED vitals
       ELSE IF \E i \in 1..Len(b.events) : ServerRaises(b.events[i])
       THEN /\ reqs' = [reqs EXCEPT ![r] = Failed(@, "event")]
            /\ UNCHANGED vitals
       ELSE LET rows == ServerRows(b.events, gateway_map, Instant(now, us))
            IN  /\ vitals' = vitals \o rows
                /\ reqs' = [reqs EXCEPT ![r] = Succeeded(@, Len(rows))]
    /\ UNCHANGED <<deployment, key, gateway_map, patient_rows>>
    /\ UNCHANGED aside

\* webhook_tenovi from `await request.json()` to the response
TenoviHandle(r, b, us) ==
    /\ deployment = "routes"
    /\ reqs[r].pc = "admitted"
    /\ body' = b
    /\ webhook_bodies' = SeenAfterParse(webhook_bodies, b)
    /\ IF JsonRaises(b)
       THEN /\ reqs' = [reqs EXCEPT ![r] = Failed(@, "parse")]
            /\ UNCHANGED <<vitals, gateway_map, patient_rows>>
       ELSE LET st == TenoviLoop(b.events,
                        [vitals |-> vitals, gateway_map |-> gateway_map,
                         patient_rows |-> patient_rows, inserted |-> 0,
                         raised |-> FALSE, clock |-> Instant(now, us)])
            IN  /\ vitals' = st.vitals
                /\ gateway_map' = st.gateway_map
                /\ patient_rows' = st.patient_rows
                /\ reqs' = [reqs EXCEPT ![r] =
                              IF st.raised THEN Failed(@, "event")
                              ELSE Succeeded(@, st.inserted)]
    /\ UNCHANGED <<deployment, key>>
    /\ UNCHANGED aside

\* server.py POST /map-gateway
MapGateway(graw, p) ==
    /\ deployment = "server"
    /\ LET gateway_raw == Strip(graw)
           patient_id == Lower(Strip(p))
           gateway_norm == norm_gateway(Str(gateway_raw))
       IN  IF gateway_raw = <<>> \/ patient_id = <<>> \/ ~Truthy(gateway_norm)
           THEN UNCHANGED gateway_map       \* 400
           ELSE gateway_map' =
                    UpsertRow(gateway_map, gateway_raw, gateway_norm.s, patient_id)
    /\ UNCHANGED <<deployment, key, body, reqs, vitals, patient_rows, webhook_bodies>>
    /\ UNCHANGED aside

\* routes/gateways.py POST /gateways/bind
BindGateway(g, p) ==
    /\ deployment = "routes"
    /\ gateway_map' = upsert_gateway_binding(gateway_map, g, p)
    /\ UNCHANGED <<deployment, key, body, reqs, vitals, patient_rows, webhook_bodies>>
    /\ UNCHANGED aside

\* the bodies the next reader may find
Delivered(pool) == IF body = NoBody THEN pool ELSE {body}

Binds ==
    \/ \E g \in BindGateways, p \in BindPatients : MapGateway(g, p)
    \/ \E g \in BindGateways, p \in BindPatients : BindGateway(g, p)

\* the sub-second part of a clock reading: none, or some
Micros == {0, 5}
OnTheSecond == {0}

\* One delivery of any body.
Next ==
    \/ \E h \in Headers : Arrive(h)
    \/ \E r \in 1..Len(reqs), b \in Delivered(Bodies), us \in OnTheSecond :
            ServerHandle(r, b, us)
    \/ \E r \in 1..Len(reqs), b \in Delivered(Bodies), us \in OnTheSecond :
            TenoviHandle(r, b, us)
    \/ Binds

Spec == Init /\ [][Next]_vars

\* Deliveries and re-deliveries of one body, concurrently or one after the
\* other, for the shorter payloads.
RetryBodies == {b \in Bodies : Len(b.events) <= MaxRetryEvents}

\* ... sent without a secret or with X-Webhook-Key: "k "
RetryHeaders == {h \in Headers : h.x_auth_key = <<>> /\ h.x_webhook_key # <<"x">>}

NextRetry ==
    \/ \E h \in RetryHeaders : Arrive(h)
    \/ \E h \in RetryHeaders : Redeliver(h)
    \/ \E r \in 1..Len(reqs), b \in Delivered(RetryBodies), us \in OnTheSecond :
            ServerHandle(r, b, us)
    \/ \E r \in 1..Len(reqs), b \in Delivered(RetryBodies), us \in OnTheSecond :
            TenoviHandle(r, b, us)
    \/ Binds

SpecRetry == Init /\ [][NextRetry]_vars

-----------------------------------------------------------------------------
(* Seeding, the clock and GET /vitals *)

MaxRows == 4        \* rows in the store before /debug/seed stops being called

MAX_LIMIT == 5000
DEFAULT_LIMIT == 500
DEFAULT_HOURS == 24
MAX_HOURS == 744

DEMO_001 == <<"d", "e", "m", "o", "-", "0", "0", "1">>
PULSE == <<"p", "u", "l", "s", "e">>

\* Variant: the seed replaces the table instead of adding to it.
DebugSeed_Resets(us1, us2) ==
    /\ deployment = "server"
    /\ Len(vitals) + 2 <= MaxRows
    /\ vitals' = << Row(DEMO_001, PULSE, Num(77), None, None, NonObj,
                        now_iso_utc(Instant(now, us1))),
                    Row(DEMO_001, SYSTOLIC_BP, Num(120), None, None, NonObj,
                        ReplaceZ(isoformat(Instant(now - 3, us2)))) >>
    /\ UNCHANGED <<deployment, key, body, reqs, gateway_map, patient_rows,
                   webhook_bodies, aside>>

\* server.py POST /debug/seed: two demo rows, the second three minutes old;
\* us1 and us2 are the sub-second parts of the two clock readings
DebugSeed(us1, us2) ==
    /\ deployment = "server"
    /\ Len(vitals) + 2 <= MaxRows
    /\ vitals' = vitals \o
          << Row(DEMO_001, PULSE, Num(77), None, None, NonObj,
                 now_iso_utc(Instant(now, us1))),
             Row(DEMO_001, SYSTOLIC_BP, Num(120), None, None, NonObj,
                 ReplaceZ(isoformat(Instant(now - 3, us2)))) >>
    /\ UNCHANGED <<deployment, key, body, reqs, gateway_map, patient_rows,
                   webhook_bodies, aside>>

\* the instants at which something happens: 0, 24 h, 25 h and 745 h later
ClockValues == {0, Hours(24), Hours(25), Hours(745)}

\* time passes
Tick(t) ==
    /\ t > now
    /\ now' = t
    /\ UNCHANGED <<deployment, key, body, reqs, vitals, gateway_map, patient_rows,
                   webhook_bodies, dialect, tz, tables, session_state,
                   user_state, resp, binds, call>>

\* The query string of GET /vitals; a parameter that is not sent is None.
Q(pid, metric, hours, limit) ==
    [patient_id |-> pid, metric |-> metric, hours |-> hours, limit |-> limit]

QueryArgs ==
    { Q(None, None, None, None),
      Q(None, None, Num(24), Num(0)),
      Q(None, None, Num(1000), Num(6000)),
      Q(None, None, Num(0), Num(0 - 1)),
      Q(Str(<<" ", "A", "L">>), Str(<<"P", "u", "l", "s", "e">>), Num(744), Num(1)) }

\* the columns of the SELECT
Item(row) ==
    [patient_id |-> row.patient_id, metric |-> row.metric, value |-> row.value,
     timestamp_utc |-> row.timestamp_utc, gateway_norm |-> row.gateway_norm]

\* timestamp_utc >= :cut, in the database's order of the column:
\* TEXT on SQLite, TIMESTAMPTZ on PostgreSQL (init_db)
ColumnGE(a, b) == IF dialect = "sqlite" THEN TextGE(a, b) ELSE InstantGE(a, b)

Min(a, b) == IF a < b THEN a ELSE b
Max(a, b) == IF a > b THEN a ELSE b

EffectiveLimit_Unclamped(limit) == limit

\* max(1, min(limit, 5000))
EffectiveLimit(limit) == Max(1, Min(limit, MAX_LIMIT))

\* Variant: the patient is compared as sent, neither trimmed nor lower-cased.
ServerWhere_PatientAsSent(row, q, d) ==
    /\ Truthy(q.patient_id) => row.patient_id = q.patient_id.s
    /\ Truthy(q.metric) => row.metric = Lower(Strip(q.metric.s))
    /\ (q.hours # None /\ q.hours.n > 0) =>
          ColumnGE(row.timestamp_utc,
                   ReplaceZ(isoformat(Instant(d.minute - Hours(q.hours.n), d.us))))

\* the WHERE clause of server.py get_vitals; d is the clock reading
ServerWhere(row, q, d) ==
    /\ Truthy(q.patient_id) => Lower(row.patient_id) = Lower(Strip(q.patient_id.s))
    /\ Truthy(q.metric) => row.metric = Lower(Strip(q.metric.s))
    /\ (q.hours # None /\ q.hours.n > 0) =>
          ColumnGE(row.timestamp_utc,
                   ReplaceZ(isoformat(Instant(d.minute - Hours(q.hours.n), d.us))))

\* ORDER BY timestamp_utc DESC: r is put into rows, which are in order; rows
\* with equal timestamps stay in the order given, oldest row first when
\* tiesOld and newest first otherwise (SQL leaves their order open)
RECURSIVE InsertDesc(_, _, _)
InsertDesc(r, rows, tiesOld) ==
    IF rows = <<>> THEN <<r>>
    ELSE IF ColumnGE(Head(rows).timestamp_utc, r.timestamp_utc)
            /\ (tiesOld \/ ~ColumnGE(r.timestamp_utc, Head(rows).timestamp_utc))
    THEN <<Head(rows)>> \o InsertDesc(r, Tail(rows), tiesOld)
    ELSE <<r>> \o rows

RECURSIVE OrderDesc(_, _)
OrderDesc(rows, tiesOld) ==
    IF rows = <<>> THEN <<>>
    ELSE InsertDesc(rows[Len(rows)], OrderDesc(SubSeq(rows, 1, Len(rows) - 1), tiesOld),
                    tiesOld)

Take(rows, n) == SubSeq(rows, 1, Min(n, Len(rows)))

\* server.py GET /vitals
ServerQuery(q, us, tiesOld) ==
    /\ deployment = "server"
    /\ LET d == Instant(now, us)
           Keep(row) == ServerWhere(row, q, d)
           lim == EffectiveLimit(IF q.limit = None THEN DEFAULT_LIMIT ELSE q.limit.n)
           rows == Take(OrderDesc(SelectSeq(vitals, Keep), tiesOld), lim)
       IN  resp' = [status |-> 200, items |-> [i \in 1..Len(rows) |-> Item(rows[i])],
                    q |-> q, at |-> d, lim |-> lim]
    /\ UNCHANGED <<deployment, key, body, reqs, vitals, gateway_map, patient_rows,
                   webhook_bodies, now, dialect, tz, tables, session_state,
                   user_state, binds, call>>

InsertAsc_Unsorted(r, rows) == rows \o <<r>>

\* rows in ascending order of their instants
RECURSIVE InsertAsc(_, _)
InsertAsc(r, rows) ==
    IF rows = <<>> THEN <<r>>
    ELSE IF InstantGE(r.timestamp_utc, Head(rows).timestamp_utc)
    THEN <<Head(rows)>> \o InsertAsc(r, Tail(rows))
    ELSE <<r>> \o rows

RECURSIVE OrderAsc(_)
OrderAsc(rows) ==
    IF rows = <<>> THEN <<>>
    ELSE InsertAsc(rows[Len(rows)], OrderAsc(SubSeq(rows, 1, Len(rows) - 1)))

\* store.query_vitals(patient_id, since) (not among the sources): the records
\* at or after since, of the patient when one is given, oldest first, capped
query_vitals(rows, pid, since) ==
    LET Keep(row) == /\ Truthy(pid) => row.patient_id = pid.s
                     /\ InstantGE(row.timestamp_utc, since)
    IN  Take(OrderAsc(SelectSeq(rows, Keep)), MAX_LIMIT)

\* routes/vitals.py GET /vitals: hours is validated (ge=1, le=24*31) and
\* defaults to 24; a limit in the query string is not a parameter and is ignored
RoutesQuery(q, us) ==
    /\ deployment = "routes"
    /\ LET d == Instant(now, us)
           hours == IF q.hours = None THEN DEFAULT_HOURS ELSE q.hours.n
           since == isoformat(Instant(d.minute - Hours(hours), d.us))
           rows == query_vitals(vitals, q.patient_id, since)
       IN  IF hours < 1 \/ hours > MAX_HOURS
           THEN resp' = [status |-> 422, items |-> <<>>, q |-> q, at |-> d,
                         lim |-> MAX_LIMIT]
           ELSE resp' = [status |-> 200,
                         items |-> [i \in 1..Len(rows) |-> Item(rows[i])],
                         q |-> q, at |-> d, lim |-> MAX_LIMIT]
    /\ UNCHANGED <<deployment, key, body, reqs, vitals, gateway_map, patient_rows,
                   webhook_bodies, now, dialect, tz, tables, session_state,
                   user_state, binds, call>>

\* fetcher.py fetch_data: metric trimmed and lower-cased, rows sorted by the
\* parsed timestamp (every timestamp of the model parses)
fetch_data(items) ==
    OrderAsc([i \in 1..Len(items) |->
                [items[i] EXCEPT !.metric = Lower(Strip(@))]])

\* the payloads ingested while the clock runs: one reading, stamped by the
\* device at minute 0 for patient " Al", or not stamped and without a patient
QueryBodies ==
    { JsonBody("object", <<EvAt(None, None, ShapeMV, None, None)>>),
      JsonBody("object", <<EvAt(Str(<<" ", "A", "l">>), None, ShapeMV, None, IsoStr(0))>>) }

NoSecret == Hdr(<<>>, <<>>, <<>>, <<>>)

\* a clock reading off the whole second
OffTheSecond == {5}

InitQuery ==
    /\ \/ deployment = "server" /\ dialect \in {"sqlite", "postgres"}
       \/ deployment = "routes" /\ dialect = "sqlite"
    /\ key = <<>>
    /\ AtRest
    /\ call = NoCall

\* Readings arrive while time passes, then the store is queried.  A query
\* changes nothing but the response, so the run is observed up to its queries.
NextQuery ==
    \/ resp = NoResp /\ Arrive(NoSecret)
    \/ resp = NoResp /\ Redeliver(NoSecret)
    \/ /\ resp = NoResp
       /\ \E r \in 1..Len(reqs), b \in Delivered(QueryBodies), us \in OffTheSecond :
            ServerHandle(r, b, us)
    \/ /\ resp = NoResp
       /\ \E r \in 1..Len(reqs), b \in Delivered(QueryBodies), us \in OffTheSecond :
            TenoviHandle(r, b, us)
    \/ resp = NoResp /\ \E t \in ClockValues : Tick(t)
    \/ \E q \in QueryArgs, us \in Micros, tiesOld \in BOOLEAN : ServerQuery(q, us, tiesOld)
    \/ \E q \in QueryArgs, us \in Micros : RoutesQuery(q, us)

SpecQuery == InitQuery /\ [][NextQuery]_vars

\* Ingestion of one reading under every identity, binds, and /debug/seed.
SeedBodies ==
    {JsonBody("object", <<Ev(p, g, ShapeMV)>>) : p \in PatientVals, g \in GatewayVals}

InitSeed ==
    /\ deployment \in {"server", "routes"}
    /\ key = <<>>
    /\ dialect = "sqlite"
    /\ AtRest
    /\ call = NoCall

NextSeed ==
    \/ Arrive(NoSecret)
    \/ Redeliver(NoSecret)
    \/ \E r \in 1..Len(reqs), b \in Delivered(SeedBodies), us \in OffTheSecond :
            ServerHandle(r, b, us)
    \/ \E r \in 1..Len(reqs), b \in Delivered(SeedBodies), us \in OffTheSecond :
            TenoviHandle(r, b, us)
    \/ \E us1, us2 \in Micros : DebugSeed(us1, us2)
    \/ Binds

SpecSeed == InitSeed /\ [][NextSeed]_vars

-----------------------------------------------------------------------------
(* POST /map-gateway statement by statement, as workers interleave *)

MaxBinds == 2       \* bind requests

\* raw gateways that normalize to "G1", and one that normalizes to nothing
BindRaws == {<<"G", "1", " ">>, <<"g", "-", "1">>, <<"-">>}
\* patients named by a bind
BindNames == {<<"B", "o", "b">>, <<"A", "l">>}

\* map_gateway lines 284-291: the arguments are cleaned, or the request is
\* refused with 400
MapStart(graw, p) ==
    /\ deployment = "server"
    /\ Len(binds) < MaxBinds
    /\ LET gateway_raw == Strip(graw)
           patient_id == Lower(Strip(p))
           gateway_norm == norm_gateway(Str(gateway_raw))
           refused == gateway_raw = <<>> \/ patient_id = <<>> \/ ~Truthy(gateway_norm)
       IN  binds' = Append(binds,
              [gateway_raw |-> gateway_raw, patient_id |-> patient_id,
               gateway_norm |-> IF refused THEN <<>> ELSE gateway_norm.s,
               pc |-> IF refused THEN "done" ELSE "begin",
               status |-> IF refused THEN 400 ELSE 0,
               existing |-> FALSE])
    /\ UNCHANGED <<deployment, key, body, reqs, vitals, gateway_map, patient_rows,
                   webhook_bodies, now, dialect, tz, tables, session_state,
                   user_state, resp, call>>

\* lines 294-296: SELECT id FROM gateway_map WHERE gateway_norm=:n
MapSelect(i) ==
    /\ binds[i].pc = "begin"
    /\ binds' = [binds EXCEPT
                   ![i].existing = \E g \in gateway_map :
                                       g.gateway_norm = binds[i].gateway_norm,
                   ![i].pc = "selected"]
    /\ UNCHANGED <<deployment, key, body, reqs, vitals, gateway_map, patient_rows,
                   webhook_bodies, now, dialect, tz, tables, session_state,
                   user_state, resp, call>>

UpdateRow_KeepsPatient(gmap, raw, n, pid) ==
    {IF g.gateway_norm = n THEN GwRow(raw, n, g.patient_id) ELSE g : g \in gmap}

\* UPDATE gateway_map SET gateway_raw=:r, patient_id=:p WHERE gateway_norm=:n
UpdateRow(gmap, raw, n, pid) ==
    {IF g.gateway_norm = n THEN GwRow(raw, n, pid) ELSE g : g \in gmap}

\* lines 297-310: UPDATE when a row was found; otherwise INSERT, and UPDATE
\* when the INSERT violates UNIQUE(gateway_norm).  On PostgreSQL the failed
\* INSERT aborts the transaction, so the UPDATE raises and nothing is written.
MapWrite(i) ==
    /\ binds[i].pc = "selected"
    /\ LET b == binds[i]
           taken == \E g \in gateway_map : g.gateway_norm = b.gateway_norm
       IN  IF b.existing
           THEN /\ gateway_map' = UpdateRow(gateway_map, b.gateway_raw,
                                            b.gateway_norm, b.patient_id)
                /\ binds' = [binds EXCEPT ![i].pc = "done", ![i].status = 200]
           ELSE IF ~taken
           THEN /\ gateway_map' = gateway_map \cup
                       {GwRow(b.gateway_raw, b.gateway_norm, b.patient_id)}
                /\ binds' = [binds EXCEPT ![i].pc = "done", ![i].status = 200]
           ELSE IF dialect = "sqlite"
           THEN /\ gateway_map' = UpdateRow(gateway_map, b.gateway_raw,
                                            b.gateway_norm, b.patient_id)
                /\ binds' = [binds EXCEPT ![i].pc = "done", ![i].status = 200]
           ELSE /\ gateway_map' = gateway_map
                /\ binds' = [binds EXCEPT ![i].pc = "done", ![i].status = 500]
    /\ UNCHANGED <<deployment, key, body, reqs, vitals, patient_rows,
                   webhook_bodies, now, dialect, tz, tables, session_state,
                   user_state, resp, call>>

\* init_db lines 172-195 (startup, POST /admin/migrate): gateway_norm is
\* computed again from gateway_raw, then one row is kept per gateway_norm
\* (the one with the lowest id; row ids are not modelled, so any one)
Renormalized(gmap) ==
    {GwRow(g.gateway_raw,
           IF Truthy(norm_gateway(Str(g.gateway_raw)))
           THEN norm_gateway(Str(g.gateway_raw)).s ELSE g.gateway_norm,
           g.patient_id) : g \in gmap}

OnePerNorm(gmap) == \A g, h \in gmap : g.gateway_norm = h.gateway_norm => g = h

AdminMigrate ==
    /\ deployment = "server"
    /\ gateway_map' \in
          {m \in SUBSET Renormalized(gateway_map) :
              /\ OnePerNorm(m)
              /\ \A g \in Renormalized(gateway_map) :
                    \E h \in m : h.gateway_norm = g.gateway_norm}
    /\ UNCHANGED <<deployment, key, body, reqs, vitals, patient_rows,
                   webhook_bodies, now, dialect, tz, tables, session_state,
                   user_state, resp, binds, call>>

InitBind ==
    /\ \/ deployment = "server" /\ dialect \in {"sqlite", "postgres"}
       \/ deployment = "routes" /\ dialect = "sqlite"
    /\ key = <<>>
    /\ AtRest
    /\ call = NoCall

NextBind ==
    \/ \E g \in BindRaws, p \in BindNames : MapStart(g, p)
    \/ \E i \in 1..Len(binds) : MapSelect(i)
    \/ \E i \in 1..Len(binds) : MapWrite(i)
    \/ AdminMigrate
    \/ \E g \in BindRaws, p \in BindNames : BindGateway(g, p)

SpecBind == InitBind /\ [][NextBind]_vars

-----------------------------------------------------------------------------
(* Blood pressure: from the webhook to the dashboard's splitter *)

BLOOD == <<"b", "l", "o", "o", "d">>
BLOOD_PRESSURE == BLOOD \o <<"_", "p", "r", "e", "s", "s", "u", "r", "e">>
NOT_A_NUMBER == <<"n", "o", "t", "-", "a", "-", "n", "u", "m", "b", "e", "r">>

\* sub in s
Contains(s, sub) ==
    \E i \in 1..(Len(s) - Len(sub) + 1) : SubSeq(s, i, i + Len(sub) - 1) = sub

\* s.split("/")
RECURSIVE SplitSlash(_)
SplitSlash(s) ==
    IF ~Contains(s, <<"/">>) THEN <<s>>
    ELSE LET i == CHOOSE k \in 1..Len(s) :
                     s[k] = "/" /\ \A j \in 1..(k - 1) : s[j] # "/"
         IN  <<SubSeq(s, 1, i - 1)>> \o SplitSlash(SubSeq(s, i + 1, Len(s)))

DigitVal(c) == CASE c = "0" -> 0 [] c = "1" -> 1 [] c = "2" -> 2
                 [] c = "5" -> 5 [] c = "7" -> 7 [] OTHER -> 8

\* float(s) of a string of digits (blanks around them are ignored)
RECURSIVE DigitsVal(_)
DigitsVal(s) ==
    IF s = <<>> THEN 0
    ELSE 10 * DigitsVal(SubSeq(s, 1, Len(s) - 1)) + DigitVal(s[Len(s)])

float(s) == Num(DigitsVal(Strip(s)))

\* the readings that carry a blood pressure, or something meant as one
MetricValue(m, v) == [metric |-> Str(m), value |-> v, systolic |-> None, diastolic |-> None]

BPEvents ==
    { EvAt(None, None, ShapeMiss, Str(<<"1", "2", "0", "/", "8", "0">>), None),
      EvAt(None, None, ShapeMiss, Str(NOT_A_NUMBER), None),
      EvAt(None, None, ShapeBP, None, None),
      EvAt(None, None, ShapeBadBP, None, None),
      EvAt(None, None, MetricValue(BLOOD_PRESSURE, Str(<<"1", "2", "0", "/", "8", "0">>)),
           None, None),
      EvAt(None, None, MetricValue(BLOOD_PRESSURE, Str(<<"1", "2", "/", "x">>)),
           None, None),
      EvAt(None, None, MetricValue(BLOOD_PRESSURE, Str(<<"1", "/", "2", "/", "5">>)),
           None, None),
      EvAt(None, None, MetricValue(BLOOD_PRESSURE, Str(NOT_A_NUMBER)), None, None) }

BPBodies == {JsonBody("object", <<e>>) : e \in BPEvents}

\* the rows split_blood_pressure makes of one row of the frame
SplitRow_KeepsAll(row) == <<row>>

SplitRow(row) ==
    IF Contains(Lower(row.metric), BLOOD) /\ row.value.t = "str"
          /\ Contains(row.value.s, <<"/">>)
    THEN LET parts == SplitSlash(row.value.s)
         IN  IF Len(parts) = 2 /\ FloatOK(Str(parts[1])) /\ FloatOK(Str(parts[2]))
             THEN << [row EXCEPT !.metric = SYSTOLIC_BP, !.value = float(parts[1])],
                     [row EXCEPT !.metric = DIASTOLIC_BP, !.value = float(parts[2])] >>
             ELSE << >>
    ELSE <<row>>

\* common.py split_blood_pressure
RECURSIVE split_blood_pressure(_)
split_blood_pressure(df) ==
    IF df = <<>> THEN <<>>
    ELSE SplitRow(Head(df)) \o split_blood_pressure(Tail(df))

\* a column of the frame the dashboard works on
Frame(row) ==
    [patient_id |-> row.patient_id, metric |-> row.metric, value |-> row.value,
     unit |-> row.unit, timestamp_utc |-> row.timestamp_utc]

\* pages/Patient.py: the stored readings are fetched and split
Dashboard ==
    /\ call = NoCall
    /\ LET df == fetch_data([i \in 1..Len(vitals) |-> Frame(vitals[i])])
       IN  call' = [fn |-> "split_blood_pressure", arg |-> df,
                    out |-> split_blood_pressure(df)]
    /\ UNCHANGED <<deployment, key, body, reqs, vitals, gateway_map, patient_rows,
                   webhook_bodies, now, dialect, tz, tables, session_state,
                   user_state, resp, binds>>

NextBP ==
    \/ Arrive(NoSecret)
    \/ Redeliver(NoSecret)
    \/ \E r \in 1..Len(reqs), b \in Delivered(BPBodies), us \in Micros :
            ServerHandle(r, b, us)
    \/ \E r \in 1..Len(reqs), b \in Delivered(BPBodies), us \in Micros :
            TenoviHandle(r, b, us)
    \/ Dashboard

SpecBP == InitSeed /\ [][NextBP]_vars

-----------------------------------------------------------------------------
(* Storage failures during ingestion *)

\* the payloads delivered while the storage may fail: one reading, one blood
\* pressure (two rows on /webhooks/tenovi), two readings in an array
FailBodies ==
    { JsonBody("object", <<Ev(None, None, ShapeMV)>>),
      JsonBody("object", <<Ev(None, None, ShapeBP)>>),
      JsonBody("array", <<Ev(None, None, ShapeMV), Ev(Str(<<" ", "A", "l">>), None, ShapeMV)>>) }

\* server.py webhook, lines 332-372, when a statement or the commit fails: the
\* exception leaves `with engine.begin()`, which rolls the transaction back
ServerHandleFails(r, b) ==
    /\ deployment = "server"
    /\ reqs[r].pc = "admitted"
    /\ ~JsonRaises(b)
    /\ \A i \in 1..Len(b.events) : ~ServerRaises(b.events[i])
    /\ body' = b
    /\ webhook_bodies' = SeenAfterParse(webhook_bodies, b)
    /\ reqs' = [reqs EXCEPT ![r] = Failed(@, "storage")]
    /\ UNCHANGED <<deployment, key, vitals, gateway_map, patient_rows>>
    /\ UNCHANGED aside

\* one turn of `for r in rows` when the storage fails after st.budget more
\* calls of append_vital_row: the rows appended before stay
TenoviTurnFailing(st, e) ==
    LET t == TenoviTurn(st, e)
        added == Len(t.vitals) - Len(st.vitals)
    IN  IF t.raised THEN t
        ELSE IF added > st.budget
        THEN [t EXCEPT !.vitals = SubSeq(t.vitals, 1, Len(st.vitals) + st.budget),
                       !.inserted = st.inserted + st.budget,
                       !.raised = TRUE, !.storage = TRUE]
        ELSE [t EXCEPT !.budget = @ - added]

RECURSIVE TenoviLoopFailing(_, _)
TenoviLoopFailing(evs, st) ==
    IF evs = <<>> \/ st.raised THEN st
    ELSE TenoviLoopFailing(Tail(evs), TenoviTurnFailing(st, Head(evs)))

\* webhook_tenovi, lines 109-113, when the k-th append_vital_row of the
\* request raises
TenoviHandleFails(r, b, us, k) ==
    /\ deployment = "routes"
    /\ reqs[r].pc = "admitted"
    /\ ~JsonRaises(b)
    /\ body' = b
    /\ webhook_bodies' = SeenAfterParse(webhook_bodies, b)
    /\ LET st == TenoviLoopFailing(b.events,
                    [vitals |-> vitals, gateway_map |-> gateway_map,
                     patient_rows |-> patient_rows, inserted |-> 0,
                     raised |-> FALSE, clock |-> Instant(now, us),
                     budget |-> k - 1, storage |-> FALSE])
       IN  /\ st.storage
           /\ vitals' = st.vitals
           /\ gateway_map' = st.gateway_map
           /\ patient_rows' = st.patient_rows
           /\ reqs' = [reqs EXCEPT ![r] = Failed(@, "storage")]
    /\ UNCHANGED <<deployment, key>>
    /\ UNCHANGED aside

NextFail ==
    \/ Arrive(NoSecret)
    \/ Redeliver(NoSecret)
    \/ \E r \in 1..Len(reqs), b \in Delivered(FailBodies), us \in Micros :
            ServerHandle(r, b, us)
    \/ \E r \in 1..Len(reqs), b \in Delivered(FailBodies), us \in Micros :
            TenoviHandle(r, b, us)
    \/ \E r \in 1..Len(reqs), b \in Delivered(FailBodies) : ServerHandleFails(r, b)
    \/ \E r \in 1..Len(reqs), b \in Delivered(FailBodies), us \in Micros, k \in 1..2 :
            TenoviHandleFails(r, b, us, k)

SpecFail == InitSeed /\ [][NextFail]_vars

-----------------------------------------------------------------------------
(* Event timestamps *)

\* the time zones a host may be set to: UTC, or five hours behind it
HostZones == {0, 0 - 300}

\* what an event may carry as its timestamp: nothing, "...T01:00:00Z",
\* "...T01:00:00+01:00", "...T01:00:00", or text that is no timestamp
StampVals == {None, IsoStr(60), IsoPlus1(60), IsoNaive(60), Str(<<"x">>)}

StampBodies ==
    {JsonBody("object", <<EvAt(None, None, ShapeMV, None, ts)>>) : ts \in StampVals}

InitStamp ==
    /\ deployment \in {"server", "routes"}
    /\ key = <<>>
    /\ dialect = "sqlite"
    /\ body = NoBody
    /\ reqs = <<>>
    /\ vitals = <<>>
    /\ gateway_map = {}
    /\ patient_rows = {}
    /\ webhook_bodies = {}
    /\ now = 0
    /\ resp = NoResp
    /\ binds = <<>>
    /\ call = NoCall
    /\ tz \in HostZones
    /\ tables = NoTables
    /\ session_state = NoSessions
    /\ user_state = NoFiles

NextStamp ==
    \/ Arrive(NoSecret)
    \/ Redeliver(NoSecret)
    \/ \E t \in ClockValues : Tick(t)
    \/ \E r \in 1..Len(reqs), b \in Delivered(StampBodies), us \in Micros :
            ServerHandle(r, b, us)
    \/ \E r \in 1..Len(reqs), b \in Delivered(StampBodies), us \in Micros :
            TenoviHandle(r, b, us)

SpecStamp == InitStamp /\ [][NextStamp]_vars

-----------------------------------------------------------------------------
(* The helper functions on their own *)

MaxLen == 3         \* longest string given to a helper

Strings(alphabet, n) == UNION {[1..k -> alphabet] : k \in 0..n}

\* arguments of norm_gateway: None, 0, 5, and strings of these characters
GatewayChars == {" ", "-", "g", "G", "1", "ª"}
NormInputs == {None, Num(0), Num(5)} \cup {Str(s) : s \in Strings(GatewayChars, MaxLen)}

Pending == [t |-> "pending", s |-> <<>>, n |-> 0]

\* norm_gateway(x)
CallNormGateway ==
    /\ call.fn = "norm_gateway" /\ call.out = Pending
    /\ call' = [call EXCEPT !.out = norm_gateway(call.arg)]
    /\ UNCHANGED <<deployment, key, body, reqs, vitals, gateway_map, patient_rows,
                   webhook_bodies, now, dialect, tz, tables, session_state,
                   user_state, resp, binds>>

\* norm_gateway(norm_gateway(x))
CallNormGatewayAgain ==
    /\ call.fn = "norm_gateway" /\ call.out # Pending /\ call.again = Pending
    /\ call' = [call EXCEPT !.again = norm_gateway(call.out)]
    /\ UNCHANGED <<deployment, key, body, reqs, vitals, gateway_map, patient_rows,
                   webhook_bodies, now, dialect, tz, tables, session_state,
                   user_state, resp, binds>>

InitPure ==
    /\ deployment = "server"
    /\ key = <<>>
    /\ dialect = "sqlite"
    /\ AtRest
    /\ call \in {[fn |-> "norm_gateway", arg |-> x, out |-> Pending, again |-> Pending] :
                    x \in NormInputs}

NextPure ==
    \/ CallNormGateway
    \/ CallNormGatewayAgain

SpecPure == InitPure /\ [][NextPure]_vars

-----------------------------------------------------------------------------
(* The dashboard's HTTP client (streamlit_app/fetcher.py) *)

MaxRetries == 2     \* largest retries argument of _request_json

\* fetch_data(hours=1): the query the dashboard sends
FetchHours == 1

\* What one HTTP attempt meets: no response at all (a connection failure or
\* a timeout; status 0 stands for None), or a response with a status and a
\* body that is JSON or not.
NoResponse == [status |-> 0, json |-> FALSE]
Outcomes ==
    {NoResponse}
    \cup {[status |-> st, json |-> j] : st \in {200, 404}, j \in BOOLEAN}
    \cup {[status |-> st, json |-> TRUE] : st \in {408, 429, 500}}

should_retry_Always(status) == TRUE

\* _should_retry
should_retry(status) ==
    status = 0 \/ (500 <= status /\ status < 600) \/ status \in {408, 429}

VITALS == <<"v", "i", "t", "a", "l", "s">>
TODD == <<"t", "o", "d", "d">>
SPO2 == <<"s", "p", "o", "2">>

\* the body of a JSON response, as r.json() returns it: the answer of
\* GET /vitals?hours=1 for a 200 on that path, some other object otherwise
Answer(path, status, d) ==
    IF path = VITALS /\ status = 200
    THEN LET q == Q(None, None, Num(FetchHours), None)
             Keep(row) == ServerWhere(row, q, d)
             rows == Take(OrderDesc(SelectSeq(vitals, Keep), FALSE),
                          EffectiveLimit(DEFAULT_LIMIT))
         IN  [shape |-> "items", items |-> [i \in 1..Len(rows) |-> Item(rows[i])]]
    ELSE [shape |-> "other", items |-> <<>>]

\* _fake_response: four readings every 15 minutes over the window asked for,
\* oldest first (the sine wave added to each value is left out)
fake_response(path, hours, d) ==
    IF path = VITALS
    THEN [shape |-> "list",
          items |-> [k \in 1..(16 * hours) |->
             [patient_id |-> TODD,
              timestamp_utc |->
                  isoformat(Instant(d.minute - 15 * (4 * hours - 1 - ((k - 1) \div 4)), d.us)),
              metric |-> CASE (k - 1) % 4 = 0 -> PULSE [] (k - 1) % 4 = 1 -> SPO2
                           [] (k - 1) % 4 = 2 -> SYSTOLIC_BP [] OTHER -> DIASTOLIC_BP,
              value |-> CASE (k - 1) % 4 = 0 -> Num(72) [] (k - 1) % 4 = 1 -> Num(97)
                          [] (k - 1) % 4 = 2 -> Num(120) [] OTHER -> Num(78)]]]
    ELSE [shape |-> "other", items |-> <<>>]

UseFake_Always(fake, path) == path \in {VITALS}

\* line 107: _FAKE_MODE and path.strip("/") in {"patients", "vitals"}
UseFake(fake, path) == fake /\ path \in {VITALS}

\* _request_json is called; range(retries + 1) may be empty
StartRequest(fake, retries, extra, path) ==
    /\ call = NoCall
    /\ call' = [fn |-> "_request_json", fake |-> fake, retries |-> retries,
                extra_ok_statuses |-> extra, path |-> path,
                attempt |-> 0, hist |-> <<>>,
                pc |-> "loop", out |-> Pending]
    /\ UNCHANGED <<deployment, key, body, reqs, vitals, gateway_map, patient_rows,
                   webhook_bodies, now, dialect, tz, tables, session_state,
                   user_state, resp, binds>>

\* one turn of `for attempt in range(retries + 1)`, lines 77-103, the
\* attempt meeting o
Attempt(o, us) ==
    /\ call # NoCall /\ call.fn = "_request_json" /\ call.pc = "loop"
    /\ LET raises == \/ o.status = 0
                     \/ (o.status >= 400 /\ o.status \notin call.extra_ok_statuses)
                     \/ ~o.json
           seen == [call EXCEPT !.hist = Append(@, o)]
       IN  call' =
             IF ~raises
             THEN [seen EXCEPT !.pc = "returned",
                               !.out = Answer(call.path, o.status, Instant(now, us))]
             ELSE IF call.attempt < call.retries /\ should_retry(o.status)
             THEN [seen EXCEPT !.attempt = @ + 1]
             ELSE [seen EXCEPT !.pc = "after"]
    /\ UNCHANGED <<deployment, key, body, reqs, vitals, gateway_map, patient_rows,
                   webhook_bodies, now, dialect, tz, tables, session_state,
                   user_state, resp, binds>>

\* lines 106-109: after the loop
AfterLoop(us) ==
    /\ call # NoCall /\ call.fn = "_request_json" /\ call.pc = "after"
    /\ call' = IF UseFake(call.fake, call.path)
               THEN [call EXCEPT !.pc = "returned",
                       !.out = fake_response(call.path, FetchHours, Instant(now, us))]
               ELSE [call EXCEPT !.pc = "raised"]
    /\ UNCHANGED <<deployment, key, body, reqs, vitals, gateway_map, patient_rows,
                   webhook_bodies, now, dialect, tz, tables, session_state,
                   user_state, resp, binds>>

\* fetch_data on what _request_json returned
Fetched(data) ==
    fetch_data(IF data.shape \in {"list", "items"} THEN data.items ELSE <<>>)

InitFetch ==
    /\ deployment = "server"
    /\ key = <<>>
    /\ dialect \in {"sqlite", "postgres"}
    /\ AtRest
    /\ call = NoCall

\* Readings arrive, then the dashboard fetches.
NextFetch ==
    \/ call = NoCall /\ Arrive(NoSecret)
    \/ /\ call = NoCall
       /\ \E r \in 1..Len(reqs), b \in Delivered(QueryBodies), us \in OffTheSecond :
            ServerHandle(r, b, us)
    \/ \E fake \in BOOLEAN, retries \in 0..MaxRetries, extra \in {{}, {404}},
          path \in {VITALS, <<>>} : StartRequest(fake, retries, extra, path)
    \/ \E o \in Outcomes, us \in OnTheSecond : Attempt(o, us)
    \/ \E us \in OnTheSecond : AfterLoop(us)

SpecFetch == InitFetch /\ [][NextFetch]_vars

\* every attempt ends (timeout=20) and the loop goes on by itself
SpecFetchFair == SpecFetch /\ WF_vars(NextFetch)

-----------------------------------------------------------------------------
(* Ingested by patient and metric, queried by patient and metric *)

AL == <<" ", "A", "l">>
BOB == <<"B", "o", "b">>

\* one reading of " Al", or a reading of " Al" and one of "Bob"; no timestamps
MatchBodies ==
    { JsonBody("object", <<Ev(Str(AL), None, ShapeMV)>>),
      JsonBody("array", <<Ev(Str(AL), None, ShapeMV), Ev(Str(BOB), None, ShapeMV)>>) }

\* patient_id and metric in other letter case and spacing, with and without a
\* limit; an empty, a blank and another patient_id
MatchArgs ==
    { Q(Str(<<"A", "L", " ">>), Str(<<" ", "P", "U", "L", "S", "E">>), None, None),
      Q(Str(<<"a", "l">>), Str(PULSE), None, Num(1)),
      Q(Str(<<>>), Str(PULSE), None, None),
      Q(Str(<<" ">>), None, None, None),
      Q(Str(<<"b", "o", "b">>), None, None, None) }

InitMatch ==
    /\ deployment = "server"
    /\ dialect \in {"sqlite", "postgres"}
    /\ key = <<>>
    /\ AtRest
    /\ call = NoCall

\* Readings arrive while time passes, then the store is queried.
NextMatch ==
    \/ resp = NoResp /\ Arrive(NoSecret)
    \/ resp = NoResp /\ Redeliver(NoSecret)
    \/ /\ resp = NoResp
       /\ \E r \in 1..Len(reqs), b \in Delivered(MatchBodies), us \in OffTheSecond :
            ServerHandle(r, b, us)
    \/ resp = NoResp /\ \E t \in ClockValues : Tick(t)
    \/ \E q \in MatchArgs, us \in OnTheSecond, tiesOld \in BOOLEAN :
            ServerQuery(q, us, tiesOld)

SpecMatch == InitMatch /\ [][NextMatch]_vars

-----------------------------------------------------------------------------
(* Every operation of the two services, in any order *)

MaxTableRows == 1   \* rows in each of the tables meals, notes and limits

FrameOps == <<deployment, key, body, reqs, vitals, gateway_map, patient_rows,
              webhook_bodies, now, dialect, tz, binds, call, session_state,
              user_state>>

Ok == [status |-> 200, items |-> <<>>, ok |-> TRUE]
BadRequest == [status |-> 400, items |-> <<>>]
Listing(rows) == [status |-> 200, items |-> rows]

\* server.py GET /patients: the patients of the three tables, without
\* duplicates (their order is left out)
ListPatients ==
    /\ deployment = "server"
    /\ LET Of(rows) == {rows[i].patient_id : i \in 1..Len(rows)}
           ids == (Of(vitals) \cup Of(tables.meals) \cup Of(tables.notes)) \ {<<>>}
       IN  resp' = [status |-> 200, items |-> <<>>, patients |-> ids]
    /\ UNCHANGED <<FrameOps, tables>>

\* server.py GET /gateways
ListGateways ==
    /\ deployment = "server"
    /\ resp' = [status |-> 200, items |-> <<>>, gateways |-> gateway_map]
    /\ UNCHANGED <<FrameOps, tables>>

\* server.py POST /meals
AddMeal(p, food, ts, us) ==
    /\ deployment = "server"
    /\ LET pid == Lower(Strip(p))
       IN  IF pid = <<>>
           THEN resp' = BadRequest /\ UNCHANGED tables
           ELSE /\ Len(tables.meals) < MaxTableRows
                /\ tables' = [tables EXCEPT !.meals = Append(@,
                                 [patient_id |-> pid, food |-> food,
                                  timestamp_utc |-> to_iso_utc(ts, Instant(now, us))])]
                /\ resp' = Ok
    /\ UNCHANGED FrameOps

\* server.py GET /meals
GetMeals(p) ==
    /\ deployment = "server"
    /\ LET Keep(row) == Lower(row.patient_id) = Lower(Strip(p))
       IN  resp' = Listing(SelectSeq(tables.meals, Keep))
    /\ UNCHANGED <<FrameOps, tables>>

\* server.py POST /notes
AddNote(p, n, ts, us) ==
    /\ deployment = "server"
    /\ LET pid == Lower(Strip(p))
           note == Strip(n)
       IN  IF pid = <<>> \/ note = <<>>
           THEN resp' = BadRequest /\ UNCHANGED tables
           ELSE /\ Len(tables.notes) < MaxTableRows
                /\ tables' = [tables EXCEPT !.notes = Append(@,
                                 [patient_id |-> pid, note |-> note,
                                  timestamp_utc |-> to_iso_utc(ts, Instant(now, us))])]
                /\ resp' = Ok
    /\ UNCHANGED FrameOps

\* server.py GET /notes
GetNotes(p) ==
    /\ deployment = "server"
    /\ LET Keep(row) == Lower(row.patient_id) = Lower(Strip(p))
       IN  resp' = Listing(SelectSeq(tables.notes, Keep))
    /\ UNCHANGED <<FrameOps, tables>>

\* server.py POST /limits: INSERT, and UPDATE when UNIQUE (patient_id, metric)
\* refuses the row; a NULL patient_id never collides
SetLimit(p, m, lsl, usl) ==
    /\ deployment = "server"
    /\ LET metric == Lower(Strip(m))
           pid == IF Truthy(p) /\ Lower(Strip(p.s)) # <<>>
                  THEN Str(Lower(Strip(p.s))) ELSE None
           Same(row) == row.patient_id # None /\ row.patient_id = pid
                            /\ row.metric = metric
           rows == tables.limits
       IN  IF metric = <<>>
           THEN resp' = BadRequest /\ UNCHANGED tables
           ELSE IF \E i \in 1..Len(rows) : Same(rows[i])
           THEN /\ tables' = [tables EXCEPT !.limits =
                                 [i \in 1..Len(rows) |->
                                     IF Same(rows[i])
                                     THEN [rows[i] EXCEPT !.lsl = lsl, !.usl = usl]
                                     ELSE rows[i]]]
                /\ resp' = Ok
           ELSE /\ Len(rows) < MaxTableRows
                /\ tables' = [tables EXCEPT !.limits = Append(@,
                                 [patient_id |-> pid, metric |-> metric,
                                  lsl |-> lsl, usl |-> usl])]
                /\ resp' = Ok
    /\ UNCHANGED FrameOps

\* server.py GET /limits
GetLimits(p) ==
    /\ deployment = "server"
    /\ LET Keep(row) ==
              Truthy(p) =>
                  (IF row.patient_id = None THEN <<>> ELSE Lower(row.patient_id.s))
                      = Lower(Strip(p.s))
       IN  resp' = Listing(SelectSeq(tables.limits, Keep))
    /\ UNCHANGED <<FrameOps, tables>>

\* routes/patients.py GET /patients: store.list_all_patients() (not among the
\* sources)
RoutesPatients ==
    /\ deployment = "routes"
    /\ resp' = [status |-> 200, items |-> <<>>, patients |-> patient_rows]
    /\ UNCHANGED <<FrameOps, tables>>

\* routes/patients.py POST /patients
UpsertPatient(id) ==
    /\ deployment = "routes"
    /\ patient_rows' = patient_rows \cup {id}
    /\ resp' = Ok
    /\ UNCHANGED <<deployment, key, body, reqs, vitals, gateway_map,
                   webhook_bodies, now, dialect, tz, tables, session_state,
                   user_state, binds, call>>

\* routes/gateways.py GET /gateways/unassigned: store.list_unassigned_gateways()
\* (not among the sources), the bindings to the placeholder patient
UnassignedGateways ==
    /\ deployment = "routes"
    /\ resp' = [status |-> 200, items |-> <<>>,
                gateways |-> {g \in gateway_map : g.patient_id = UNASSIGNED}]
    /\ UNCHANGED <<FrameOps, tables>>

\* what the callers send: a reading of a gateway without a patient, and a
\* stamped reading of patient " Al"
OpsBodies ==
    { JsonBody("object", <<Ev(None, Str(<<"g", "-", "1">>), ShapeMV)>>),
      JsonBody("object", <<EvAt(Str(<<" ", "A", "l">>), None, ShapeMV, None, IsoStr(0))>>) }
OpsPatients == {<<" ", "A", "l">>, <<" ">>}
OpsNotes == {<<"o", "k">>}
OpsLimits == {<<50, 100>>, <<60, 90>>}
OpsQueries == {Q(Str(<<" ", "A", "L">>), None, None, None)}

Reads ==
    \/ \E q \in OpsQueries, us \in OnTheSecond : ServerQuery(q, us, TRUE)
    \/ \E q \in OpsQueries, us \in OnTheSecond : RoutesQuery(q, us)
    \/ ListPatients
    \/ ListGateways
    \/ \E p \in OpsPatients : GetMeals(p)
    \/ \E p \in OpsPatients : GetNotes(p)
    \/ \E p \in {None, Str(<<" ", "A", "l">>)} : GetLimits(p)
    \/ RoutesPatients
    \/ UnassignedGateways

Writes ==
    \/ \E n \in OpsNotes, us \in OnTheSecond :
            AddMeal(<<" ", "A", "l">>, n, None, us)
    \/ \E n \in OpsNotes, us \in OnTheSecond :
            AddNote(<<" ", "A", "l">>, n, None, us)
    \/ \E l \in OpsLimits : SetLimit(Str(<<" ", "A", "l">>), PULSE, l[1], l[2])
    \/ \E p \in BindPatients : UpsertPatient(p)

InitOps ==
    /\ deployment \in {"server", "routes"}
    /\ dialect = "sqlite"
    /\ key = <<>>
    /\ AtRest
    /\ call = NoCall

\* no query or listing has been answered yet
Quiet == resp \in {NoResp, Ok, BadRequest}

\* One delivery and the other operations in any order.  A query or a listing
\* changes nothing but the response, so a run is observed up to its queries
\* and listings.
NextOps ==
    \/ Quiet /\ Arrive(NoSecret)
    \/ /\ Quiet
       /\ \E r \in 1..Len(reqs), b \in Delivered(OpsBodies), us \in OnTheSecond :
            ServerHandle(r, b, us)
    \/ /\ Quiet
       /\ \E r \in 1..Len(reqs), b \in Delivered(OpsBodies), us \in OnTheSecond :
            TenoviHandle(r, b, us)
    \/ Quiet /\ \E us1, us2 \in OnTheSecond : DebugSeed(us1, us2)
    \/ Quiet /\ Binds
    \/ Quiet /\ AdminMigrate
    \/ Quiet /\ Writes
    \/ Reads

SpecOps == InitOps /\ [][NextOps]_vars

-----------------------------------------------------------------------------
(* The patient page (pages/Patient.py): one action is one script run *)

MaxEntries == 2     \* rows in a table of meals or notes

\* an empty CSV field read back by pandas
NaN == <<"NaN">>

\* the instants the date and time inputs give
PageTimes == {1}
\* what is typed into the note field
PageNotes == {<<"o", "k", " ">>}
FOOD == <<"e", "g", "g">>

\* A row of a table.  by is bookkeeping no code reads: the patient whose page
\* the row was entered on.
Entry(p, t, text) == [by |-> p, timestamp_utc |-> t, text |-> text]

\* sort_values("timestamp_utc")
RECURSIVE InsertByTs(_, _)
InsertByTs(r, rows) ==
    IF rows = <<>> THEN <<r>>
    ELSE IF Head(rows).timestamp_utc <= r.timestamp_utc
    THEN <<Head(rows)>> \o InsertByTs(r, Tail(rows))
    ELSE <<r>> \o rows

RECURSIVE SortByTs(_)
SortByTs(rows) ==
    IF rows = <<>> THEN <<>>
    ELSE InsertByTs(rows[Len(rows)], SortByTs(SubSeq(rows, 1, Len(rows) - 1)))

\* to_csv / read_csv: an empty text is written as an empty field and read
\* back as NaN; the timestamps are written in ISO form and parsed again
ToCsv(rows) ==
    [i \in 1..Len(rows) |-> [rows[i] EXCEPT !.text = IF @ = NaN THEN <<>> ELSE @]]
FromCsv(rows) ==
    [i \in 1..Len(rows) |-> [rows[i] EXCEPT !.text = IF @ = <<>> THEN NaN ELSE @]]

\* load_meals, load_notes: the file of the patient, empty when there is none
load_meals(files, p) == FromCsv(files[p].meals)
load_notes(files, p) == FromCsv(files[p].notes)

\* save_meals, save_notes: the file of the patient is written anew
save_meals(files, p, df) == [files EXCEPT ![p].meals = ToCsv(SortByTs(df))]
save_notes(files, p, df) == [files EXCEPT ![p].notes = ToCsv(SortByTs(df))]

\* Variant: the tables are loaded in the session's first run only.
LoadPersisted_FirstOnly(ss, p, files) ==
    IF ss.persist_loaded_for = None
    THEN [ss EXCEPT !.meals = load_meals(files, p),
                    !.notes = load_notes(files, p),
                    !.usda_hits = FALSE,
                    !.persist_loaded_for = Str(p)]
    ELSE ss

\* lines 118-123: the tables are loaded when the page shows another patient
\* than the one they were loaded for
LoadPersisted(ss, p, files) ==
    IF ss.persist_loaded_for = None \/ ss.persist_loaded_for # Str(p)
    THEN [ss EXCEPT !.meals = load_meals(files, p),
                    !.notes = load_notes(files, p),
                    !.usda_hits = FALSE,
                    !.persist_loaded_for = Str(p)]
    ELSE ss

\* the top of the script: pid is read from the URL, the tables are loaded
Top(ss, p, files) ==
    [LoadPersisted(ss, p, files) EXCEPT !.pid = Str(p)]

FramePage == <<deployment, key, body, reqs, vitals, gateway_map, patient_rows,
               webhook_bodies, now, dialect, tz, tables, resp, binds, call>>

\* a script run in which no form was submitted, or which stops at
\* "No data to display" (line 239) before the forms
PageRun(s, p) ==
    /\ session_state' = [session_state EXCEPT ![s] = Top(@, p, user_state)]
    /\ UNCHANGED <<FramePage, user_state>>

\* a run with the USDA search form submitted (lines 611-632); found tells
\* whether the search had results
PageSearch(s, p, found) ==
    /\ session_state' = [session_state EXCEPT ![s] =
                            [Top(@, p, user_state) EXCEPT !.usda_hits = found]]
    /\ UNCHANGED <<FramePage, user_state>>

\* a run with note_form submitted (lines 594-607); st.rerun() runs the script
\* again for the same patient
PageAddNote(s, p, n, t) ==
    LET ss == Top(session_state[s], p, user_state)
        notes == SortByTs(Append(ss.notes, Entry(p, t, Strip(n))))
    IN  /\ Len(ss.notes) < MaxEntries
        /\ session_state' = [session_state EXCEPT ![s] =
                                Top([ss EXCEPT !.notes = notes], p, user_state')]
        /\ user_state' = save_notes(user_state, p, notes)
        /\ UNCHANGED FramePage

\* a run with the Add form of a search result submitted (lines 669-689)
PageAddMeal(s, p, t) ==
    LET ss == Top(session_state[s], p, user_state)
        meals == SortByTs(Append(ss.meals, Entry(p, t, FOOD)))
    IN  /\ ss.usda_hits
        /\ Len(ss.meals) < MaxEntries
        /\ session_state' = [session_state EXCEPT ![s] =
                                Top([ss EXCEPT !.meals = meals], p, user_state')]
        /\ user_state' = save_meals(user_state, p, meals)
        /\ UNCHANGED FramePage

InitPage ==
    /\ deployment = "server"
    /\ dialect = "sqlite"
    /\ key = <<>>
    /\ AtRest
    /\ call = NoCall

NextPage ==
    \/ \E s \in Sessions, p \in PagePids : PageRun(s, p)
    \/ \E s \in Sessions, p \in PagePids, found \in BOOLEAN : PageSearch(s, p, found)
    \/ \E s \in Sessions, p \in PagePids, n \in PageNotes, t \in PageTimes :
            PageAddNote(s, p, n, t)
    \/ \E s \in Sessions, p \in PagePids, t \in PageTimes : PageAddMeal(s, p, t)

SpecPage == InitPage /\ [][NextPage]_vars

-----------------------------------------------------------------------------
(* Properties *)

Reqs == 1..Len(reqs)
Answered(r) == reqs[r].pc = "done"
Authenticated(r) == reqs[r].status # 401

\* C1: a body delivered twice in sequence, authenticated both times, is stored
\* once: the second delivery inserts nothing and is answered duplicate=true.
C1_Idempotent ==
    (Len(reqs) >= 2 /\ 1 \in reqs[2].after /\ reqs[1].status = 200
        /\ Answered(2) /\ Authenticated(2))
    => /\ reqs[2].duplicate
       /\ reqs[2].inserted = 0
       /\ (Len(reqs) = 2 => Len(vitals) = reqs[1].inserted)

\* C2: of two deliveries of the same body that run concurrently (the second
\* arrives before the first is answered), at most one inserts records.
C2_AtMostOneInsert ==
    \A r1, r2 \in Reqs :
        (r1 < r2 /\ r1 \notin reqs[r2].after)
        => ~(reqs[r1].inserted > 0 /\ reqs[r2].inserted > 0)

\* C3: with a secret configured, a request none of whose accepted headers
\* carries it (after trimming) is answered 401 on arrival, and that step
\* leaves the measurement store, the gateway directory, the patient rows and
\* the seen set as they were; a request answered 401 does nothing later.
Configured == Strip(key) # <<>>
AcceptedHeaders(h) ==
    IF deployment = "server" THEN {h.x_webhook_key, h.x_auth_key, h.auth_key}
    ELSE {h.x_webhook_key, h.authorization}
NoSecretMatches(h) == \A v \in AcceptedHeaders(h) : Strip(v) # Strip(key)
C3_Unauthorized ==
    [][ /\ \A r \in 1..Len(reqs') :
              (r > Len(reqs) /\ Configured /\ NoSecretMatches(reqs'[r].hdr))
              => /\ reqs'[r].status = 401
                 /\ reqs'[r].pc = "done"
                 /\ vitals' = vitals
                 /\ gateway_map' = gateway_map
                 /\ patient_rows' = patient_rows
                 /\ webhook_bodies' = webhook_bodies
        /\ \A r \in Reqs : reqs[r].status = 401 => reqs'[r] = reqs[r] ]_vars

C3_Rejected ==
    \E r \in Reqs : /\ Configured
                    /\ NoSecretMatches(reqs[r].hdr)
                    /\ reqs[r].hdr.x_webhook_key # <<>>
                    /\ reqs[r].status = 401

\* C4: an authenticated request with a zero-length body is answered 200 with
\* inserted=0 and is not treated as malformed JSON.
C4_EmptyBodyAck ==
    \A r \in Reqs :
        (body = EmptyBody /\ Answered(r) /\ Authenticated(r))
        => (reqs[r].status = 200 /\ reqs[r].inserted = 0 /\ reqs[r].failed_at = "none")

\* C5: a body is in the seen set only if some request parsed it; after a
\* request that failed at parse, a later delivery of the same body is parsed
\* again and is not answered duplicate=true.
C5_SeenOnlyAfterParse ==
    /\ webhook_bodies \subseteq {body}
    /\ body \in webhook_bodies =>
          \E r \in Reqs : Answered(r) /\ reqs[r].failed_at \notin {"auth", "parse"}
    /\ \A r1, r2 \in Reqs :
          (r1 \in reqs[r2].after /\ reqs[r1].failed_at = "parse"
              /\ Answered(r2) /\ Authenticated(r2))
          => (~reqs[r2].duplicate /\ reqs[r2].failed_at = "parse")

C5_RetriedAfterParseFailure ==
    \E r1, r2 \in Reqs :
        /\ r1 \in reqs[r2].after
        /\ reqs[r1].failed_at = "parse"
        /\ Answered(r2) /\ Authenticated(r2)
        /\ body \notin webhook_bodies

\* C6: in an array of three events whose second matches no recognized shape,
\* the first and third are stored, the second contributes no record, and the
\* response reports inserted=2.
RecognizedMV(e) == e.obj /\ Present(e.metric) /\ Present(e.value)
Unrecognized(e) ==
    e.obj /\ ~Present(e.metric) /\ ~Present(e.value)
          /\ ~Present(e.systolic) /\ ~Present(e.diastolic)
C6_PartialBatch ==
    \A r \in Reqs :
        (/\ Answered(r) /\ Authenticated(r)
         /\ body.top = "array" /\ Len(body.events) = 3
         /\ RecognizedMV(body.events[1]) /\ Unrecognized(body.events[2])
         /\ RecognizedMV(body.events[3])
         /\ body.events[1].patient_id.t # "num")
        => /\ reqs[r].status = 200
           /\ reqs[r].inserted = 2
           /\ Len(vitals) = 2
           /\ \A k \in 1..Len(vitals) : vitals[k].raw # body.events[2]

\* C7: an element of an array that fails to resolve or normalize does not
\* abort the batch: the request succeeds, inserted is the number of records
\* stored, and every element that normalizes has its record stored.
C7_NoAbort ==
    \A r \in Reqs :
        (Answered(r) /\ Authenticated(r) /\ body.top = "array")
        => /\ reqs[r].status = 200
           /\ reqs[r].inserted = Len(vitals)
           /\ \A i \in 1..Len(body.events) :
                 (RecognizedMV(body.events[i]) /\ body.events[i].patient_id.t # "num")
                 => \E k \in 1..Len(vitals) : vitals[k].raw = body.events[i]

\* the rows a step appends to the measurement store, and what the directory
\* held for an element's gateway before the step
NewRows == Len(vitals) + 1 .. Len(vitals')
BoundPatient(e) == SelectPatient(gateway_map, norm_gateway(e.gateway_id).s)
BoundAfter(e) == SelectPatient(gateway_map', norm_gateway(e.gateway_id).s)
Placeholder == IF deployment = "server" THEN UNKNOWN ELSE UNASSIGNED
UnresolvedGateway(e) ==
    /\ e.obj /\ e.patient_id = None /\ Truthy(e.gateway_id)
    /\ BoundPatient(e) \in {None, Str(Placeholder)}

\* C8 (as stated): every record stored for an event that carries a gateway
\* with no binding (or bound to the placeholder by an earlier event) and no
\* patient identifier is stored under the placeholder, and after the step
\* the directory binds the gateway to that placeholder.
C8_BindingRecorded ==
    [][ \A k \in NewRows :
            UnresolvedGateway(vitals'[k].raw)
            => /\ vitals'[k].patient_id = Placeholder
               /\ BoundAfter(vitals'[k].raw) = Str(Placeholder) ]_vars

\* C8 (amended): such a record is stored under the endpoint's one placeholder
\* ("unknown" on /webhook, the unassigned patient on /webhooks/tenovi);
\* /webhooks/tenovi then binds the gateway to the placeholder, /webhook
\* leaves the directory as it was.
C8_PlaceholderStable ==
    [][ \A k \in NewRows :
            UnresolvedGateway(vitals'[k].raw)
            => /\ vitals'[k].patient_id = Placeholder
               /\ deployment = "routes"
                    => BoundAfter(vitals'[k].raw) = Str(UNASSIGNED)
               /\ deployment = "server" => gateway_map' = gateway_map ]_vars

C8_TwoEventsOnePlaceholder ==
    /\ deployment = "routes"
    /\ Len(reqs) = 2 /\ 1 \in reqs[2].after /\ reqs[2].status = 200
    /\ Len(vitals) >= 2
    /\ \A k \in 1..Len(vitals) :
          /\ vitals[k].raw.patient_id = None /\ Truthy(vitals[k].raw.gateway_id)
          /\ vitals[k].patient_id = UNASSIGNED
    /\ \E g \in gateway_map : g.patient_id = UNASSIGNED

\* C9: the patient of a stored record follows the precedence: a patient
\* identifier on the event decides it even when the event's gateway is bound;
\* without one, a bound gateway yields the bound patient; with neither, the
\* endpoint's fixed sentinel is used.
ExplicitPid(e) == Truthy(e.patient_id) /\ Strip(ToStr(e.patient_id)) # <<>>
C10_Verbatim ==
    [][ \A k \in NewRows :
            (vitals'[k].raw.patient_id.t = "str" /\ ExplicitPid(vitals'[k].raw))
            => vitals'[k].patient_id = vitals'[k].raw.patient_id.s ]_vars

\* C10 (amended): /webhooks/tenovi stores the identifier verbatim; /webhook
\* stores it trimmed of surrounding whitespace and lower-cased.
C10_StoredPatient ==
    [][ \A k \in NewRows :
          LET e == vitals'[k].raw
          IN  (e.patient_id.t = "str" /\ ExplicitPid(e))
              => /\ deployment = "routes" => vitals'[k].patient_id = e.patient_id.s
                 /\ deployment = "server"
                      => vitals'[k].patient_id = Lower(Strip(e.patient_id.s)) ]_vars

C10_StoredLowerCased ==
    \E k \in 1..Len(vitals) :
        /\ deployment = "server"
        /\ vitals[k].raw.patient_id = Str(<<" ", "A", "l">>)
        /\ vitals[k].patient_id = <<"a", "l">>

\* C11: every record of the measurement store has a patient id that is not
\* empty, whether it was ingested or seeded, and a request whose events are
\* objects with an absent or string patient field is answered 200 whatever
\* identity the events carry or lack.
C11_PatientNeverEmpty ==
    /\ \A k \in 1..Len(vitals) : vitals[k].patient_id # <<>>
    /\ \A r \in Reqs :
          (/\ Answered(r) /\ Authenticated(r) /\ body.kind = "json"
           /\ \A i \in 1..Len(body.events) :
                 body.events[i].obj /\ body.events[i].patient_id.t # "num")
          => reqs[r].status = 200

C11_StoredWithoutIdentity ==
    \E r \in Reqs, k \in 1..Len(vitals) :
        /\ reqs[r].status = 200
        /\ vitals[k].raw.obj
        /\ vitals[k].raw.patient_id = None /\ vitals[k].raw.gateway_id = None
        /\ vitals[k].patient_id = Placeholder

\* C12 (as stated): normalizing a normalized gateway changes nothing, and a
\* result that is not None consists of upper-case letters and digits only.
UpperCaseLetters == {"A", "B", "G", "K", "L", "O", "P", "U", "S", "E", "X"}
Digits == {"0", "1", "2", "5", "7", "8"}
C12_UpperCaseAlnum ==
    (call.fn = "norm_gateway" /\ call.again # Pending)
    => /\ call.again = call.out
       /\ call.out # None =>
             \A i \in 1..Len(call.out.s) :
                 call.out.s[i] \in UpperCaseLetters \cup Digits

\* C12 (amended): normalizing a normalized gateway changes nothing, and a
\* result that is not None is a non-empty string of digits, upper-case letters
\* and letters that have no upper-case form.
Uncased == {"ª"}
C12_Idempotent ==
    (call.fn = "norm_gateway" /\ call.again # Pending)
    => /\ call.again = call.out
       /\ call.out # None =>
             /\ call.out.t = "str" /\ call.out.s # <<>>
             /\ \A i \in 1..Len(call.out.s) :
                   call.out.s[i] \in UpperCaseLetters \cup Digits \cup Uncased

C12_NormalizedTwice ==
    /\ call.fn = "norm_gateway"
    /\ call.arg = Str(<<" ", "g", "-">>)
    /\ call.out = Str(<<"G">>)
    /\ call.again = Str(<<"G">>)

\* a bind request whose write commits in this step
Completes(i) ==
    /\ binds[i].pc = "selected"
    /\ binds'[i].pc = "done"
    /\ binds'[i].status = 200

\* C13: the directory holds at most one binding per normalized gateway id, a
\* bind that completes leaves its own patient bound to that id, and on the
\* server nothing but a completing bind changes the directory, so the patient
\* bound is the one of the last bind that completed, however the binds
\* interleave
C13_LastBindWins ==
    [][/\ OnePerNorm(gateway_map')
       /\ \A i \in 1..Len(binds) :
             Completes(i) =>
                \E g \in gateway_map' :
                   /\ g.gateway_norm = binds[i].gateway_norm
                   /\ g.patient_id = binds[i].patient_id
                   /\ g.gateway_raw = binds[i].gateway_raw
       /\ (deployment = "server" /\ gateway_map' # gateway_map) =>
             \E i \in 1..Len(binds) : Completes(i)]_vars

\* two binds of the same gateway both found no row; the one that started
\* first committed last, and its patient is the one bound
C13_ConcurrentBinds ==
    /\ Len(binds) = 2
    /\ \A i \in 1..2 : binds[i].pc = "done" /\ binds[i].status = 200
                       /\ ~binds[i].existing
    /\ binds[1].patient_id # binds[2].patient_id
    /\ binds[1].gateway_raw # binds[2].gateway_raw
    /\ gateway_map = {GwRow(binds[1].gateway_raw, binds[1].gateway_norm,
                            binds[1].patient_id)}

\* a GET /vitals that was answered with a list
Listed == resp.status = 200

\* the start of the window of the answered query: T minus H hours
WindowStart == isoformat(Instant(resp.at.minute - Hours(resp.q.hours.n), resp.at.us))

\* the stored records the answered query asks for: inside the window, of the
\* patient and of the metric when these are given
Wanted ==
    LET Keep(row) ==
          /\ InstantGE(row.timestamp_utc, WindowStart)
          /\ Truthy(resp.q.patient_id) =>
                Lower(row.patient_id) = Lower(Strip(resp.q.patient_id.s))
          /\ (deployment = "server" /\ Truthy(resp.q.metric)) =>
                row.metric = Lower(Strip(resp.q.metric.s))
    IN  SelectSeq(vitals, Keep)

\* C14: a query for hours=H answered at T lists only records stamped at or
\* after T minus H hours, and lists every such record that matches the
\* filters, up to the limit
C14_Window ==
    (Listed /\ resp.q.hours # None /\ resp.q.hours.n \in 1..MAX_HOURS) =>
       /\ \A i \in 1..Len(resp.items) :
             InstantGE(resp.items[i].timestamp_utc, WindowStart)
       /\ Len(resp.items) = Min(resp.lim, Len(Wanted))

\* every record of the list is stamped no later than the one after it
Ascending(items) ==
    \A i \in 1..(Len(items) - 1) :
        InstantGE(items[i + 1].timestamp_utc, items[i].timestamp_utc)

\* every record of the list is, in the order of the column, at or after the
\* one that follows it
DescendingInColumn(items) ==
    \A i \in 1..(Len(items) - 1) :
        ColumnGE(items[i].timestamp_utc, items[i + 1].timestamp_utc)

C16_LimitClamped ==
    Listed =>
       /\ resp.lim \in 1..MAX_LIMIT
       /\ Len(resp.items) <= resp.lim
       /\ deployment = "server" =>
             resp.lim = (IF resp.q.limit = None THEN DEFAULT_LIMIT
                         ELSE IF resp.q.limit.n < 1 THEN 1
                         ELSE IF resp.q.limit.n > MAX_LIMIT THEN MAX_LIMIT
                         ELSE resp.q.limit.n)

\* limit=0 was asked of a store holding two records in the window: one is listed
C16_ZeroBecomesOne ==
    /\ Listed /\ deployment = "server"
    /\ resp.q.limit = Num(0)
    /\ resp.q.hours = Num(24)
    /\ Len(Wanted) >= 2
    /\ Len(resp.items) = 1

\* the start of the longest window a query answered at resp.at may cover
MaxWindowStart == isoformat(Instant(resp.at.minute - Hours(MAX_HOURS), resp.at.us))

\* C17: no answer of the vitals query lists a record older than 744 hours,
\* whatever hours value is sent and also when none is sent (an hours value
\* outside 1..744 is refused, or the window is cut to the range)
C17_WindowBounded ==
    Listed =>
       \A i \in 1..Len(resp.items) :
           InstantGE(resp.items[i].timestamp_utc, MaxWindowStart)

\* one delivery of the single event e has been answered and the dashboard has
\* fetched and split what is stored
Charted(e) ==
    /\ Len(reqs) = 1 /\ Answered(1)
    /\ body = JsonBody("object", <<e>>)
    /\ call.fn = "split_blood_pressure"

\* exactly two records, systolic_bp=120.0 and diastolic_bp=80.0, in mmHg,
\* with one timestamp
TwoHalves(rows) ==
    /\ Len(rows) = 2
    /\ rows[1].metric = SYSTOLIC_BP /\ rows[1].value = Num(120)
    /\ rows[2].metric = DIASTOLIC_BP /\ rows[2].value = Num(80)
    /\ rows[1].unit = Str(MMHG) /\ rows[2].unit = Str(MMHG)
    /\ rows[1].timestamp_utc = rows[2].timestamp_utc

BpCombined == EvAt(None, None, ShapeMiss, Str(<<"1", "2", "0", "/", "8", "0">>), None)

\* C18: the event {"bp": "120/80"} becomes exactly two records,
\* systolic_bp=120.0 and diastolic_bp=80.0, both in mmHg and with the same
\* timestamp, in the store or at the latest after the dashboard's split
C18_CombinedSplit ==
    Charted(BpCombined) => (TwoHalves(vitals) \/ TwoHalves(call.out))

BpNotANumber == EvAt(None, None, ShapeMiss, Str(NOT_A_NUMBER), None)
BpBadHalves == EvAt(None, None, ShapeBadBP, None, None)

\* the rows of the frame that the splitter turned into two halves
WasSplit(row) ==
    \E i, j \in 1..Len(call.out) :
        /\ call.out[i].metric = SYSTOLIC_BP /\ call.out[j].metric = DIASTOLIC_BP
        /\ call.out[i].timestamp_utc = row.timestamp_utc
        /\ call.out[j].timestamp_utc = row.timestamp_utc

\* {"bp": "not-a-number"} is answered without an error and stored as one
\* blood_pressure record carrying the raw string
C19_RawStringKept ==
    Charted(BpNotANumber) =>
       /\ reqs[1].status = 200
       /\ Len(vitals) = 1
       /\ vitals[1].metric = BLOOD_PRESSURE
       /\ vitals[1].value = Str(NOT_A_NUMBER)

\* non-numeric systolic/diastolic fields do not raise and are not dropped
C19_BadHalvesKept ==
    Charted(BpBadHalves) => (reqs[1].status = 200 /\ vitals # <<>>)

\* the splitter keeps every row it does not split
C19_SplitterKeeps ==
    call.fn = "split_blood_pressure" =>
       \A i \in 1..Len(call.arg) :
           WasSplit(call.arg[i]) \/ (\E j \in 1..Len(call.out) : call.out[j] = call.arg[i])

\* C19: a blood pressure whose halves are not numeric is never dropped and
\* never raises: {"bp": "not-a-number"} becomes one blood_pressure record
\* with the raw string, non-numeric systolic/diastolic fields are stored
\* without an error, and the dashboard's splitter keeps a combined row it
\* cannot split
C19_MalformedKept ==
    C19_RawStringKept /\ C19_BadHalvesKept /\ C19_SplitterKeeps

\* C20: a body that is valid JSON but neither an object nor an array is
\* answered with a client error (4xx), not with an internal server error,
\* and nothing is inserted
C20_ScalarRejected ==
    \A r \in Reqs :
        (Answered(r) /\ Authenticated(r) /\ body.top = "scalar")
        => /\ reqs[r].status \in 400..499
           /\ reqs[r].inserted = 0
           /\ vitals = <<>>

\* the deliveries answered with a success
Stored == {r \in Reqs : reqs[r].status = 200}

\* C21: when every delivery of a body so far has ended in a storage failure,
\* none of its records is stored; so once a retry has succeeded (and only
\* one has), the store holds the records of the body exactly once
C21_RetryAfterFailure ==
    (/\ \A r \in Reqs : Answered(r) /\ reqs[r].failed_at \in {"none", "storage"}
     /\ Cardinality(Stored) <= 1)
    => /\ Stored = {} => vitals = <<>>
       /\ \A r \in Stored : Len(vitals) = reqs[r].inserted

\* the instant a timestamp names: its wall-clock minute less its offset, the
\* offset being none for a trailing Z and for a timestamp without offset
Named(ts) == ts.n - (IF ts.t = "plus1" THEN 60 ELSE 0)

\* C22: a request whose event has a missing or unparseable timestamp succeeds
\* and its record is stamped with the time of ingestion; a parseable timestamp
\* is stored as the instant it names, a trailing Z and a missing offset both
\* meaning UTC
C22_TimestampResolved ==
    [][\A r \in Reqs :
          (reqs[r].pc = "admitted" /\ reqs'[r].pc = "done")
          => /\ reqs'[r].status = 200
             /\ Len(vitals') = Len(vitals) + 1
             /\ \A k \in NewRows :
                   LET ts == vitals'[k].raw.timestamp
                       at == vitals'[k].timestamp_utc
                   IN  IF ts.t \in {"iso", "plus1", "naive"}
                       THEN at.minute = Named(ts) /\ at.frac = 0
                       ELSE at.minute = now]_vars

\* a call of _request_json, and one that is over
Requesting == call # NoCall /\ call.fn = "_request_json"
Over == call.pc \in {"returned", "raised"}

\* an attempt that met o ended with a parsed response
Parsed(o) ==
    /\ o.status # 0 /\ o.json
    /\ (o.status < 400 \/ o.status \in call.extra_ok_statuses)

\* C28: _request_json makes at most retries+1 attempts and then ends; every
\* attempt but the last met a connection failure or a status 5xx, 408 or 429
\* (so no attempt follows another 4xx status, a success that is not JSON, or
\* a parsed response), and a parsed response is what the call returns
C28_Attempts ==
    /\ [](Requesting =>
            /\ Len(call.hist) <= call.retries + 1
            /\ \A i \in 1..(Len(call.hist) - 1) :
                  /\ ~Parsed(call.hist[i])
                  /\ \/ call.hist[i].status = 0
                     \/ call.hist[i].status \in {408, 429}
                     \/ call.hist[i].status \in 500..599
            /\ (call.hist # <<>> /\ Parsed(call.hist[Len(call.hist)]))
                  => (call.pc = "returned" /\ call.out.shape # "list"))
    /\ (Requesting ~> (Requesting /\ Over))

\* three attempts were made, the first two met a 500 and a timeout, the third
\* a 404, and the call raised
C28_GaveUpOn404 ==
    /\ Requesting /\ call.pc = "raised"
    /\ call.retries = 2 /\ Len(call.hist) = 3
    /\ call.hist[1].status = 500 /\ call.hist[2].status = 0
    /\ call.hist[3].status = 404

\* the dashboard's fetch of the vitals has returned
FetchedVitals == Requesting /\ call.path = VITALS /\ call.pc = "returned"

\* a fetched row is a stored record, as GET /vitals lists it
Real(row) ==
    \E k \in 1..Len(vitals) : row = [Item(vitals[k]) EXCEPT !.metric = Lower(Strip(@))]

\* C23: with demo mode off, whatever the backend answered or failed with,
\* every row the dashboard's fetch returns is a stored record, and nothing is
\* returned when nothing is stored
C23_NoFabricatedData ==
    (FetchedVitals /\ ~call.fake) =>
       /\ \A i \in 1..Len(Fetched(call.out)) : Real(Fetched(call.out)[i])
       /\ vitals = <<>> => Fetched(call.out) = <<>>

\* demo mode is off, the store is empty, all three attempts failed: the call
\* raised and returned nothing
C23_FailedWithoutDemoData ==
    /\ Requesting /\ call.path = VITALS /\ ~call.fake
    /\ vitals = <<>>
    /\ call.pc = "raised" /\ Len(call.hist) = 3
    /\ call.out = Pending

\* C24: a stored measurement record stays in the store with its fields
\* unchanged: whatever operation runs (ingestion, seeding, a repeated
\* initialization or migration, binds, queries, meals, notes, limits), the
\* store before the step is the beginning of the store after it
C24_RecordsImmutable ==
    [][ /\ Len(vitals') >= Len(vitals)
        /\ \A k \in 1..Len(vitals) : vitals'[k] = vitals[k] ]_vars

\* an ingested record, then seeded ones, a bind, a note and a limit
C24_StoredThenSeeded ==
    /\ deployment = "server"
    /\ \E i, j \in 1..Len(vitals) :
          /\ i < j
          /\ vitals[i].raw # NonObj
          /\ vitals[j].patient_id = DEMO_001
    /\ gateway_map # {}
    /\ tables.notes # <<>> /\ tables.limits # <<>>

\* a step in which a delivery to the webhook is answered
IngestionStep ==
    \E r \in 1..Len(reqs) : reqs[r].pc = "admitted" /\ reqs'[r].pc = "done"

\* C25: the measurement store changes only in ingestion steps; every other
\* operation (queries, listings, binds, meals, notes, limits, the admin and
\* debug routes) leaves it as it was
C25_OnlyIngestionWrites ==
    [][ vitals' # vitals => IngestionStep ]_vars

\* C26 (as stated): the gateway directory is read-only on the ingestion path;
\* its bindings change only in an explicit bind operation.
C26_DirectoryChangedByBindOnly ==
    [][ gateway_map' # gateway_map => Binds ]_vars

\* C26 (amended): the directory changes in an explicit bind operation, and in
\* an ingestion step of /webhooks/tenovi, which adds bindings to the
\* unassigned placeholder for gateways that had none and keeps every binding
\* there was; /webhook never changes the directory.
C26_IngestionAddsPlaceholderOnly ==
    [][ gateway_map' # gateway_map
        => \/ Binds
           \/ /\ IngestionStep
              /\ deployment = "routes"
              /\ gateway_map \subseteq gateway_map'
              /\ \A g \in gateway_map' \ gateway_map :
                    /\ g.patient_id = UNASSIGNED
                    /\ \A h \in gateway_map : h.gateway_norm # g.gateway_norm ]_vars

\* /webhooks/tenovi has stored a reading of a gateway and bound the gateway
\* to the placeholder
C26_BoundByIngestion ==
    /\ deployment = "routes"
    /\ \E r \in Reqs : reqs[r].status = 200 /\ reqs[r].inserted > 0
    /\ \E k \in 1..Len(vitals), g \in gateway_map :
          /\ Truthy(vitals[k].raw.gateway_id)
          /\ g.gateway_norm = norm_gateway(vitals[k].raw.gateway_id).s
          /\ g.patient_id = UNASSIGNED

\* C27: POST /webhook is all-or-nothing per request: a request that does not
\* succeed leaves the store as it was; a request that succeeds adds exactly
\* one row per payload event, in payload order, after the rows there were,
\* and answers with inserted equal to the number of events
C27_AllOrNothing ==
    [][ \A r \in 1..Len(reqs) :
          (deployment = "server" /\ reqs[r].pc = "admitted" /\ reqs'[r].pc = "done")
          => IF reqs'[r].status = 200
             THEN /\ Len(vitals') = Len(vitals) + Len(body'.events)
                  /\ reqs'[r].inserted = Len(body'.events)
                  /\ \A k \in 1..Len(vitals) : vitals'[k] = vitals[k]
                  /\ \A i \in 1..Len(body'.events) :
                        vitals'[Len(vitals) + i].raw = body'.events[i]
             ELSE vitals' = vitals ]_vars

\* a payload of several different events was stored by /webhook
C27_BatchStored ==
    /\ deployment = "server"
    /\ \E r \in Reqs : reqs[r].status = 200 /\ reqs[r].inserted = Len(body.events)
    /\ Len(body.events) >= 2
    /\ body.events[1] # body.events[2]
    /\ Len(vitals) = Len(body.events)

\* the records stored for an event with an explicit patient and metric
Explicit(row) ==
    /\ row.raw # NonObj
    /\ row.raw.patient_id.t = "str" /\ Strip(row.raw.patient_id.s) # <<>>
    /\ row.raw.metric.t = "str"

\* a and b are equal up to letter case and surrounding whitespace
SameUpToCase(a, b) == Lower(Strip(a)) = Lower(Strip(b))

Returned(row) == \E i \in 1..Len(resp.items) : resp.items[i] = Item(row)

\* the stored records the patient_id and metric arguments of q name
Named_By(q) ==
    {k \in 1..Len(vitals) :
        /\ Explicit(vitals[k])
        /\ SameUpToCase(q.patient_id.s, vitals[k].raw.patient_id.s)
        /\ SameUpToCase(q.metric.s, vitals[k].raw.metric.s)}

\* C29 (as stated): a record ingested with patient P and metric M is
\* returned by GET /vitals for patient_id and metric arguments that equal P
\* and M up to letter case and surrounding whitespace, and is not returned
\* for a patient_id that differs from P after lower-casing and trimming.
C29_ReturnedForItsPatient ==
    (resp.status = 200 /\ resp.q.patient_id.t = "str")
    => \A k \in 1..Len(vitals) :
          Explicit(vitals[k])
          => /\ (resp.q.metric.t = "str" /\ k \in Named_By(resp.q))
                  => Returned(vitals[k])
             /\ ~SameUpToCase(resp.q.patient_id.s, vitals[k].raw.patient_id.s)
                  => ~Returned(vitals[k])

\* C29 (amended): such a record is returned when patient_id and metric are
\* not empty and equal P and M up to letter case and surrounding whitespace,
\* no hours window is asked for and no more records than the effective limit
\* match; it is not returned for a patient_id that is not empty and differs
\* from P after lower-casing and trimming.  An empty patient_id is no filter.
C29_ReturnedWithinLimit ==
    (resp.status = 200 /\ Truthy(resp.q.patient_id))
    => \A k \in 1..Len(vitals) :
          Explicit(vitals[k])
          => /\ (/\ Truthy(resp.q.metric) /\ k \in Named_By(resp.q)
                 /\ resp.q.hours = None
                 /\ Cardinality(Named_By(resp.q)) <= resp.lim)
                  => Returned(vitals[k])
             /\ ~SameUpToCase(resp.q.patient_id.s, vitals[k].raw.patient_id.s)
                  => ~Returned(vitals[k])

\* " Al"'s record is in the answer to patient_id "AL ", metric " PULSE", and
\* Bob's record of the same payload is not
C29_FoundInOtherCase ==
    /\ resp.status = 200
    /\ resp.q.patient_id = Str(<<"A", "L", " ">>)
    /\ \E k, j \in 1..Len(vitals) :
          /\ vitals[k].raw.patient_id = Str(AL) /\ Returned(vitals[k])
          /\ vitals[j].raw.patient_id = Str(BOB) /\ ~Returned(vitals[j])

\* the rows a session holds, and the rows of a patient's files
Held(ss) == {ss.meals[i] : i \in 1..Len(ss.meals)} \cup {ss.notes[i] : i \in 1..Len(ss.notes)}
Filed(p) ==
    {user_state[p].meals[i] : i \in 1..Len(user_state[p].meals)}
        \cup {user_state[p].notes[i] : i \in 1..Len(user_state[p].notes)}

\* C30: after every script run of the patient page the meals and notes in
\* session state were loaded for the selected patient and every row of them
\* was entered for that patient, and a patient's files hold rows entered for
\* that patient only
C30_TablesOfSelectedPatient ==
    /\ \A s \in Sessions :
          session_state[s].pid # None
          => /\ session_state[s].persist_loaded_for = session_state[s].pid
             /\ \A row \in Held(session_state[s]) : Str(row.by) = session_state[s].pid
    /\ \A p \in PagePids : \A row \in Filed(p) : row.by = p

\* the one session that has run added a note for a patient, went to another
\* patient and holds the note it added there
C30_SwitchedAndAdded ==
    \E s \in Sessions, p, q \in PagePids :
        /\ p # q
        /\ \A o \in Sessions \ {s} : session_state[o] = NoSession
        /\ session_state[s].pid = Str(q)
        /\ session_state[s].notes # <<>>
        /\ user_state[q].notes # <<>>
        /\ user_state[p].notes # <<>>

====
